---- MODULE Spec2Model ----
(***************************************************************************)
(* Scoreboard of recurring matches across seasons (ShkrSltn/bo6).          *)
(*                                                                         *)
(* Four layers are modelled.                                               *)
(*  - The scoring engine of the page component: calculatePositionsFromWins *)
(*    and calculatePoints, composed in saveMatch / saveMatchEdit.          *)
(*  - The persistence service ScoreboardServiceV2 the page calls           *)
(*    (saveMatch, updateMatch, deleteMatch with updatePlayerStats and      *)
(*    recalculatePlayerStats, removePlayerFromSeason, deleteGlobalPlayer,  *)
(*    clearAllData, getAllSeasons) over the tables seasons, matches,       *)
(*    match_players and season_players.                                    *)
(*  - The earlier service ScoreboardService (position entry), whose        *)
(*    deleteMatch and updateMatch subtract a stored contribution with      *)
(*    Math.max(0, ...), and whose saveMatch skips a player whose row could *)
(*    not be fetched.                                                      *)
(*  - The page: the add-match and edit-match forms, the asynchronous       *)
(*    handlers with their isLoading flag, and the views (leaderboard and   *)
(*    getCurrentSeasonWinners of the current season, globalWinsRanking     *)
(*    with its champion badge, getDetailedPlayerStats and the other        *)
(*    per-player functions over all seasons).                              *)
(*                                                                         *)
(* Each specification fixes what runs alone: Spec, SpecEntry, SpecRoster   *)
(* and SpecLegacy take an operation from its first to its last call as one *)
(* step; SpecRace interleaves the calls of saveMatch of several clients;   *)
(* SpecFail stops saveMatch and updateMatch at a failing call; SpecLoad    *)
(* interleaves the handlers of one page at their awaits.                   *)
(*                                                                         *)
(* Points are fractions (2.5, 1.5, 4/3, ...).  They are kept exactly as    *)
(* integers counted in 1/300 of a point: one hundredth is 3 units, one     *)
(* point is 300 units, so k/n is exact for every n up to 6 and rounding to *)
(* two decimals is rounding to a multiple of 3.                            *)
(*                                                                         *)
(* Not modelled: more than one season in the tables of the services, and  *)
(* the binary rounding of JavaScript numbers below the second decimal.     *)
(***************************************************************************)
EXTENDS Integers, Sequences, FiniteSets, TLC

VARIABLES
    entries,         \* raw {playerId, winsInMatch} list handed to the scorer
    resolved,        \* matchPlayersWithPoints, the scorer's output for entries
    phase,           \* "input" before the scorer ran on entries, "scored" after
    season_players,  \* table season_players of the season: player -> wins, points
    matches,         \* tables matches + match_players: match id -> set of rows
    match_seq,       \* BIGSERIAL of matches.id: the next id to hand out
    edits,           \* number of match edits (saveMatchEdit) performed so far
    probe,           \* observer: totals before the latest save, for save-then-delete
    seasons,         \* seasons.value / props.seasons: the loaded seasons, each with players and matches
    board,           \* value of the computed leaderboard for the current season
    winners,         \* value of getCurrentSeasonWinners() for the current season
    ranking,         \* value of the computed globalWinsRanking
    badges,          \* champion-badge shown (or not) with each item of the ranking
    details,         \* per player: values of the page's per-player functions
    showAddMatchModal, \* showAddMatchModal.value: the add-match dialog is open
    editingMatch,    \* editingMatch.value: the match being edited, or none
    isLoading,       \* isLoading.value: the flag the mutating handlers test and set
    inflight,        \* handlers of the page that started and await a service call
    writers,         \* concurrent saveMatch calls: position and the row each fetched
    season_ids       \* table seasons: the ids of its rows

vars == <<entries, resolved, phase, season_players, matches, match_seq, probe, edits,
          seasons, board, winners, ranking, badges, details,
          showAddMatchModal, editingMatch, isLoading, inflight, writers, season_ids>>

(***************************************************************************)
(* Bounds of the model.                                                    *)
(***************************************************************************)
\* largest win-count a player can enter for one match
MaxWins == 9
\* number of matches a season ever gets (ids 1 .. MaxMatches)
MaxMatches == 3
\* number of edits of stored matches in one run
MaxEdits == 1

\* global players the scorer is exercised on
Players == {"A", "B", "C", "D"}
\* roster of the one season whose tables are modelled
Roster == {"A", "B", "C"}
\* win-counts entered for matches of that season: three levels give every
\* tie pattern of three participants
SeasonWinCounts == {1, 4, 5}

(***************************************************************************)
(* Fixed-point points.                                                     *)
(***************************************************************************)
\* 0.01 point, in units of 1/300 point (toFixed(2), DECIMAL(5,2))
Hundredth == 3
One == 100 * Hundredth
\* the fraction n/d of a point (exact for d <= 6)
Pts(n, d) == (n * One) \div d

\* Number(x.toFixed(2)): nearest multiple of a hundredth.  x is a multiple
\* of 1/300, so x is never half way between two hundredths.
toFixed2(x) == ((x + 1) \div Hundredth) * Hundredth

\* a value written to a DECIMAL(5,2) column is rounded to two decimals
Decimal52(x) == ((x + 1) \div Hundredth) * Hundredth

(***************************************************************************)
(* Sequences helpers.                                                      *)
(***************************************************************************)
Range(s) == {s[i] : i \in 1 .. Len(s)}

\* a comparator that never orders two entries: each entry stays behind the
\* entries before it
InsertUncompared(e, t) == Append(t, e)

\* Array.prototype.sort with comparator (a, b) => b.winsInMatch - a.winsInMatch:
\* a stable sort by winsInMatch descending.
InsertByWins(e, t) ==
    LET k == Cardinality({i \in 1 .. Len(t) : t[i].winsInMatch >= e.winsInMatch})
    IN  SubSeq(t, 1, k) \o <<e>> \o SubSeq(t, k + 1, Len(t))

\* the sort left out: the list is walked in the order it was entered
SortByWinsDescSkipped(s) == s

RECURSIVE SortByWinsDesc(_)
SortByWinsDesc(s) ==
    IF s = <<>> THEN <<>>
    ELSE InsertByWins(s[Len(s)], SortByWinsDesc(SubSeq(s, 1, Len(s) - 1)))

(***************************************************************************)
(* PositionResolver: calculatePositionsFromWins.                           *)
(***************************************************************************)
\* dense ranking instead of competition ranking: the next distinct win-count
\* takes the next position, whatever the number of players tied above it
NewRunPositionDense(i, currentPosition) == IF i = 0 THEN 1 ELSE currentPosition + 1

\* the position given to a new run of win-counts starting at 0-based index i
NewRunPosition(i, currentPosition) == i + 1

\* the for-loop: i is the 0-based index, currentPosition the loop variable,
\* result the array built so far
RECURSIVE PositionsLoop(_, _, _, _)
PositionsLoop(sorted, i, currentPosition, result) ==
    IF i >= Len(sorted) THEN result
    ELSE LET player == sorted[i + 1]
             pos == IF i > 0 /\ sorted[i].winsInMatch = player.winsInMatch
                    THEN currentPosition
                    ELSE NewRunPosition(i, currentPosition)
         IN  PositionsLoop(sorted, i + 1, pos,
                 Append(result, [playerId |-> player.playerId,
                                 winsInMatch |-> player.winsInMatch,
                                 position |-> pos]))

calculatePositionsFromWins(players) ==
    PositionsLoop(SortByWinsDesc(players), 0, 1, <<>>)

(***************************************************************************)
(* PointAllocator of the page: calculatePoints.                            *)
(***************************************************************************)
\* a shared first place splitting the 3 + 1 points of the two top places
FirstPlacePointsSplit(playersAtPosition) == Pts(4, playersAtPosition)

\* points of a shared first place, by the number of players sharing it
FirstPlacePoints(playersAtPosition) ==
    IF playersAtPosition = 1 THEN Pts(3, 1)
    ELSE IF playersAtPosition = 2 THEN Pts(5, 2)
    ELSE Pts(2, 1)

\* a shared second place splitting the single point of the second place
SecondPlacePointsSplit(playersAtPosition) ==
    IF playersAtPosition <= 2 THEN Pts(1, playersAtPosition) ELSE 0

\* points of a shared second place, by the number of players sharing it
SecondPlacePoints(playersAtPosition) ==
    IF playersAtPosition = 1 THEN Pts(1, 1)
    ELSE IF playersAtPosition = 2 THEN Pts(3, 2)
    ELSE 0

calculatePoints(position, matchPlayers) ==
    LET playersAtPosition ==
            Cardinality({i \in 1 .. Len(matchPlayers) : matchPlayers[i].position = position})
    IN  IF position = 1 THEN FirstPlacePoints(playersAtPosition)
        ELSE IF position = 2 THEN SecondPlacePoints(playersAtPosition)
        ELSE 0

(***************************************************************************)
(* MatchScorer: the composition in saveMatch and saveMatchEdit.            *)
(***************************************************************************)
MatchScorer(raw) ==
    LET playersWithPositions == calculatePositionsFromWins(raw)
    IN  [i \in 1 .. Len(playersWithPositions) |->
            [playerId |-> playersWithPositions[i].playerId,
             winsInMatch |-> playersWithPositions[i].winsInMatch,
             position |-> playersWithPositions[i].position,
             pointsEarned |-> calculatePoints(playersWithPositions[i].position,
                                              playersWithPositions)]]

(***************************************************************************)
(* Inputs of the scorer: every list of at most one entry per player, in    *)
(* any order, with win-counts 0 .. MaxWins.                                *)
(***************************************************************************)
PlayerOrders(k) == {f \in [1 .. k -> Players] : \A i, j \in 1 .. k : i # j => f[i] # f[j]}

\* the list naming the players in the order ord with the win-counts w
EntryList(ord, w) ==
    [i \in 1 .. Len(ord) |-> [playerId |-> ord[i], winsInMatch |-> w[i]]]

IsEntryList(l) ==
    \E k \in 0 .. Cardinality(Players) :
        \E ord \in PlayerOrders(k), w \in [1 .. k -> 0 .. MaxWins] : l = EntryList(ord, w)

(***************************************************************************)
(* Tables of the season, as createSeason leaves them.                      *)
(***************************************************************************)
NoProbe == [phase |-> "none"]

InitTables ==
    /\ season_players = [p \in Roster |-> [wins |-> 0, points |-> 0]]
    /\ matches = <<>>
    /\ match_seq = 1
    /\ probe = NoProbe
    /\ edits = 0

tables == <<season_players, matches, match_seq, probe, edits>>

\* the page before loadSeasons returned: nothing loaded, nothing computed
InitViews ==
    /\ seasons = <<>>
    /\ board = <<>>
    /\ winners = <<>>
    /\ ranking = <<>>
    /\ badges = <<>>
    /\ details = <<>>

views == <<seasons, board, winners, ranking, badges, details>>

\* no match being edited
NoEdit == [present |-> FALSE]

\* the page as setup leaves it: no dialog, nothing edited, nothing in flight;
\* the season of the tables is the row 1 of table seasons
InitPage ==
    /\ showAddMatchModal = FALSE
    /\ editingMatch = NoEdit
    /\ isLoading = FALSE
    /\ inflight = <<>>
    /\ writers = <<>>
    /\ season_ids = {1}

page == <<showAddMatchModal, editingMatch, isLoading, inflight, writers, season_ids>>

(***************************************************************************)
(* SpecScore: the scorer applied to every input list.                      *)
(***************************************************************************)
InitScore ==
    /\ IsEntryList(entries)
    /\ resolved = <<>>
    /\ phase = "input"
    /\ InitTables
    /\ InitPage
    /\ InitViews

\* saveMatch / saveMatchEdit, the scoring lines: matchPlayersWithPoints
ApplyMatchScorer ==
    /\ phase = "input"
    /\ resolved' = MatchScorer(entries)
    /\ phase' = "scored"
    /\ UNCHANGED <<entries, tables, views, page>>

NextScore == ApplyMatchScorer

SpecScore == InitScore /\ [][NextScore]_vars

(***************************************************************************)
(* ScoreboardServiceV2: the helper methods.                                *)
(***************************************************************************)
PlayersAt(position, allPlayers) == {r \in allPlayers : r.position = position}

\* ScoreboardServiceV2.calculatePoints; allPlayers is the set of the match's
\* rows (one per player), each with its position
ServiceCalculatePoints(position, allPlayers) ==
    LET firstPlaceCount == Cardinality(PlayersAt(1, allPlayers))
        secondPlaceCount == Cardinality(PlayersAt(2, allPlayers))
    IN  IF position = 1
        THEN IF firstPlaceCount > 1 THEN Pts(3 + 1, firstPlaceCount) ELSE Pts(3, 1)
        ELSE IF position = 2
        THEN IF firstPlaceCount > 1 THEN 0
             ELSE IF secondPlaceCount > 1 THEN Pts(1, secondPlaceCount)
             ELSE Pts(1, 1)
        ELSE 0

\* the match_players rows an insert of matchPlayers writes: wins_in_match is
\* not among the inserted columns and takes the column's DEFAULT 0,
\* points_earned is rounded by its DECIMAL(5,2) column
MatchPlayerInserts(matchPlayers) ==
    {[player_id |-> mp.playerId,
      wins_in_match |-> 0,
      position |-> mp.position,
      points_earned |-> Decimal52(ServiceCalculatePoints(mp.position, Range(matchPlayers)))] :
        mp \in Range(matchPlayers)}

\* every participation counted as a win
WinIncrementAlways(isWin) == 1

\* the win a result adds to season_players.wins
WinIncrement(isWin) == IF isWin THEN 1 ELSE 0

\* updatePlayerStats: the season_players row of playerResult's player after
\* the fetch of currentStats and the update
updatePlayerStats(currentStats, playerResult, matchPlayers) ==
    LET isWin == playerResult.position = 1
        pointsEarned == ServiceCalculatePoints(playerResult.position, Range(matchPlayers))
    IN  [wins |-> currentStats.wins + WinIncrement(isWin),
         points |-> toFixed2(currentStats.points + pointsEarned)]

\* the match_players row of playerId in a match's rows
RowOf(rows, playerId) == CHOOSE r \in rows : r.player_id = playerId

Participants(rows) == {r.player_id : r \in rows}

\* the ids of the stored matches of the season holding a row of playerId
MatchesOf(ms, playerId) == {id \in DOMAIN ms : playerId \in Participants(ms[id])}

\* the loop of recalculatePlayerStats over the fetched matches: totalWins
RECURSIVE TotalWins(_, _, _)
TotalWins(ms, ids, playerId) ==
    IF ids = {} THEN 0
    ELSE LET id == CHOOSE x \in ids : TRUE
         IN  (IF RowOf(ms[id], playerId).position = 1 THEN 1 ELSE 0)
             + TotalWins(ms, ids \ {id}, playerId)

\* the loop of recalculatePlayerStats over the fetched matches: totalPoints
RECURSIVE TotalPoints(_, _, _)
TotalPoints(ms, ids, playerId) ==
    IF ids = {} THEN 0
    ELSE LET id == CHOOSE x \in ids : TRUE
         IN  ServiceCalculatePoints(RowOf(ms[id], playerId).position, ms[id])
             + TotalPoints(ms, ids \ {id}, playerId)

\* recalculatePlayerStats: the row written for playerId from the stored matches ms
recalculatePlayerStats(ms, playerId) ==
    [wins |-> TotalWins(ms, MatchesOf(ms, playerId), playerId),
     points |-> toFixed2(TotalPoints(ms, MatchesOf(ms, playerId), playerId))]

(***************************************************************************)
(* Season totals as the fold of the stored match history.                  *)
(***************************************************************************)
RECURSIVE StoredPoints(_, _, _)
StoredPoints(ms, ids, playerId) ==
    IF ids = {} THEN 0
    ELSE LET id == CHOOSE x \in ids : TRUE
         IN  RowOf(ms[id], playerId).points_earned + StoredPoints(ms, ids \ {id}, playerId)

FoldWins(ms, playerId) ==
    Cardinality({id \in MatchesOf(ms, playerId) : RowOf(ms[id], playerId).position = 1})

FoldPoints(ms, playerId) == StoredPoints(ms, MatchesOf(ms, playerId), playerId)

Consistent(sp, ms) ==
    \A p \in DOMAIN sp : sp[p].wins = FoldWins(ms, p) /\ sp[p].points = FoldPoints(ms, p)

(***************************************************************************)
(* Spec: the match operations of the page on one season, one at a time.    *)
(***************************************************************************)
\* the roster in its display order
RosterOrder == <<"A", "B", "C">>

\* the sub-lists of the roster order: who takes part, listed in roster order
RosterSubLists ==
    {ord \in UNION {[1 .. k -> Roster] : k \in 1 .. Len(RosterOrder)} :
        \E pick \in [1 .. Len(ord) -> 1 .. Len(RosterOrder)] :
            /\ \A i \in 1 .. Len(ord) : ord[i] = RosterOrder[pick[i]]
            /\ \A i \in 1 .. Len(ord) - 1 : pick[i] < pick[i + 1]}

\* win-counts entered top-down: the highest count of SeasonWinCounts first,
\* then at each entry the same count or the next lower one
EntersTopDown(w) ==
    LET top == CHOOSE x \in SeasonWinCounts : \A y \in SeasonWinCounts : y <= x
        nextLower(x) == {y \in SeasonWinCounts :
                            y < x /\ \A z \in SeasonWinCounts : z < x => z <= y}
    IN  /\ w[1] = top
        /\ \A i \in 1 .. Len(w) - 1 : w[i + 1] = w[i] \/ w[i + 1] \in nextLower(w[i])

\* the non-empty entry lists of the add-match and edit-match forms used on the
\* season: one entry per participant, sorted by winsInMatch descending.  Every
\* set of participants occurs with every pattern of ties; the participants
\* are ranked in roster order (a later roster player never beats an earlier
\* one), which keeps the number of distinct stored matches small.
SeasonEntryLists ==
    {EntryList(ord, w) : <<ord, w>> \in
        {ow \in UNION {RosterSubLists \X [1 .. k -> SeasonWinCounts] : k \in 1 .. Len(RosterOrder)} :
            /\ Len(ow[1]) = Len(ow[2])
            /\ EntersTopDown(ow[2])}}

\* the scoring lines of saveMatch / saveMatchEdit on each of these lists
ScoredForm == [cm \in SeasonEntryLists |-> MatchScorer(cm)]

Init ==
    /\ entries = <<>>
    /\ resolved = <<>>
    /\ phase = "input"
    /\ InitTables
    /\ InitPage
    /\ InitViews

\* page saveMatch with currentMatch = cm, through ScoreboardServiceV2.saveMatch
SaveMatch(cm) ==
    /\ match_seq <= MaxMatches
    /\ Len(cm) # 0
    /\ \A i \in 1 .. Len(cm) : cm[i].playerId \in DOMAIN season_players
    /\ LET matchPlayersWithPoints == ScoredForm[cm]
           id == match_seq
           who == {mp.playerId : mp \in Range(matchPlayersWithPoints)}
           resultOf(p) == CHOOSE mp \in Range(matchPlayersWithPoints) : mp.playerId = p
       IN  /\ matches' = matches @@ (id :> MatchPlayerInserts(matchPlayersWithPoints))
           /\ match_seq' = id + 1
           /\ season_players' =
                 [p \in DOMAIN season_players |->
                     IF p \in who
                     THEN updatePlayerStats(season_players[p], resultOf(p),
                                            matchPlayersWithPoints)
                     ELSE season_players[p]]
           /\ probe' = IF Consistent(season_players, matches)
                       THEN [phase |-> "saved", id |-> id, before |-> season_players]
                       ELSE NoProbe
    /\ UNCHANGED <<entries, resolved, phase, edits, views, page>>

\* page deleteMatch(matchId), through ScoreboardServiceV2.deleteMatch
DeleteMatch(matchId) ==
    /\ matchId \in DOMAIN matches
    /\ LET matchData == matches[matchId]
           left == [id \in DOMAIN matches \ {matchId} |-> matches[id]]
       IN  /\ matches' = left
           /\ season_players' =
                 [p \in DOMAIN season_players |->
                     IF p \in Participants(matchData)
                     THEN recalculatePlayerStats(left, p)
                     ELSE season_players[p]]
    /\ probe' = IF probe.phase = "saved" /\ probe.id = matchId
                THEN [probe EXCEPT !.phase = "deleted"]
                ELSE NoProbe
    /\ UNCHANGED <<entries, resolved, phase, match_seq, edits, views, page>>

\* the players whose statistics updateMatch recalculates: those of the new
\* list; the rows the match held before are not consulted
RecalculatedOnUpdate(oldRows, players) == {mp.playerId : mp \in Range(players)}

\* page saveMatchEdit with editingMatch = {id: matchId, players: em}, through
\* ScoreboardServiceV2.updateMatch; em is the list after the user entered the
\* win-counts of the edited match
UpdateMatch(matchId, em) ==
    /\ matchId \in DOMAIN matches
    /\ edits < MaxEdits
    /\ LET matchPlayersWithPoints == ScoredForm[em]
           replaced == [matches EXCEPT ![matchId] = MatchPlayerInserts(matchPlayersWithPoints)]
       IN  /\ matches' = replaced
           /\ season_players' =
                 [p \in DOMAIN season_players |->
                     IF p \in RecalculatedOnUpdate(matches[matchId], matchPlayersWithPoints)
                     THEN recalculatePlayerStats(replaced, p)
                     ELSE season_players[p]]
    /\ probe' = NoProbe
    /\ edits' = edits + 1
    /\ UNCHANGED <<entries, resolved, phase, match_seq, views, page>>

Next ==
    \/ \E cm \in SeasonEntryLists : SaveMatch(cm)
    \/ \E matchId \in 1 .. MaxMatches : DeleteMatch(matchId)
    \/ \E matchId \in 1 .. MaxMatches, em \in SeasonEntryLists : UpdateMatch(matchId, em)

Spec == Init /\ [][Next]_vars

(***************************************************************************)
(* Properties of the scoring engine, under SpecScore.                      *)
(***************************************************************************)
\* the number of entries of the input with strictly more wins than w
StrictlyAbove(w) == Cardinality({j \in 1 .. Len(entries) : entries[j].winsInMatch > w})

\* the number of output records at position pos
SharedBy(pos) == Cardinality({i \in 1 .. Len(resolved) : resolved[i].position = pos})

\* C1: competition ranking.  Once the scorer has run, the output has one
\* record per input entry and the position of every player is 1 + the number
\* of entries with strictly more wins; an empty input gives an empty output.
C1_CompetitionRanking ==
    phase = "scored" =>
        /\ Len(resolved) = Len(entries)
        /\ \A i \in 1 .. Len(entries) :
              \E k \in 1 .. Len(resolved) :
                  /\ resolved[k].playerId = entries[i].playerId
                  /\ resolved[k].position = 1 + StrictlyAbove(entries[i].winsInMatch)
        /\ (entries = <<>> => resolved = <<>>)

\* C1 witness: two players tied at position 1 and the next win-count at 3
C1_Witness ==
    /\ phase = "scored"
    /\ SharedBy(1) = 2
    /\ SharedBy(2) = 0
    /\ SharedBy(3) >= 1

\* C2: rank monotonicity.  More wins means a strictly smaller position, equal
\* wins mean the same position, for every pair of records of one resolved match.
C2_RankMonotonicity ==
    phase = "scored" =>
        \A a, b \in Range(resolved) :
            /\ (a.winsInMatch > b.winsInMatch => a.position < b.position)
            /\ (a.winsInMatch = b.winsInMatch => a.position = b.position)

\* C2 witness: a resolved match, entered out of order, holding a tied pair
\* and a pair with different wins
C2_Witness ==
    /\ phase = "scored"
    /\ \E i, j \in 1 .. Len(entries) : i < j /\ entries[i].winsInMatch < entries[j].winsInMatch
    /\ \E a, b \in Range(resolved) : a.playerId # b.playerId /\ a.winsInMatch = b.winsInMatch
    /\ \E a, b \in Range(resolved) : a.winsInMatch > b.winsInMatch

\* the rule table of the point allocator in hundredths of a point: row =
\* position 1 or 2, column = 1, 2 or at least 3 players sharing the position
RuleTable == <<  <<300, 250, 200>>,  <<100, 150, 0>>  >>

TableValue(pos, count) ==
    IF pos >= 3 THEN 0
    ELSE RuleTable[pos][IF count >= 3 THEN 3 ELSE count] * Hundredth

Entry(p, w) == [playerId |-> p, winsInMatch |-> w]

Scored(p, w, pos, pts) ==
    [playerId |-> p, winsInMatch |-> w, position |-> pos, pointsEarned |-> pts * Hundredth]

SharingRow(rows, r) == Cardinality(PlayersAt(r.position, rows))

\* C5: the points persisted with a match, by the save path and by the edit
\* path alike, are the value of the rule table for the row's position and
\* the number of rows sharing it.
C5_PersistedPointsFollowTable ==
    \A id \in DOMAIN matches :
        \A r \in matches[id] :
            r.points_earned = TableValue(r.position, SharingRow(matches[id], r))

\* a step that saved a match: the id sequence advanced
IsSaveStep == match_seq' = match_seq + 1

\* C6: a save adds exactly the saved match's contribution to the season
\* totals: +1 win for a participant at position 1, + the participant's stored
\* points_earned, and nothing for a roster player who did not take part.
C6_SaveAddsContribution ==
    [][IsSaveStep =>
        LET rows == matches'[match_seq]
        IN  \A p \in Roster :
                IF p \in Participants(rows)
                THEN /\ season_players'[p].wins =
                            season_players[p].wins
                            + (IF RowOf(rows, p).position = 1 THEN 1 ELSE 0)
                     /\ season_players'[p].points =
                            season_players[p].points + RowOf(rows, p).points_earned
                ELSE season_players'[p] = season_players[p]]_vars

\* C6 witness: after a three-way tie, a second match tied between A and B has
\* been saved: A holds 2 wins and 1.33 + 2 points, C keeps 1 win and 1.33
C6_Witness ==
    /\ match_seq = 3
    /\ DOMAIN matches = {1, 2}
    /\ Participants(matches[1]) = {"A", "B", "C"}
    /\ Participants(matches[2]) = {"A", "B"}
    /\ \A r \in matches[1] \cup matches[2] : r.position = 1
    /\ season_players["A"] = [wins |-> 2, points |-> 333 * Hundredth]
    /\ season_players["C"] = [wins |-> 1, points |-> 133 * Hundredth]

\* C7: a delete right after the save of the same match, from totals that
\* agreed with the stored history, restores every player's wins and points
\* and leaves no trace of the match.
C7_DeleteUndoesSave ==
    probe.phase = "deleted" =>
        /\ season_players = probe.before
        /\ probe.id \notin DOMAIN matches

\* a step that edited the stored match id
IsUpdateStepOf(id) ==
    /\ match_seq' = match_seq
    /\ DOMAIN matches' = DOMAIN matches
    /\ id \in DOMAIN matches
    /\ matches'[id] # matches[id]

\* C8: an edit replaces the match's contribution: from totals that agreed with
\* the stored history, every old and every new participant ends with the
\* totals of the history holding the edited match.
C8_EditReplacesContribution ==
    [][\A id \in 1 .. MaxMatches :
        (IsUpdateStepOf(id) /\ Consistent(season_players, matches)) =>
            \A p \in Participants(matches[id]) \cup Participants(matches'[id]) :
                /\ season_players'[p].wins = FoldWins(matches', p)
                /\ season_players'[p].points = FoldPoints(matches', p)]_vars

\* C9: every player's wins are the number of stored matches with the player
\* at position 1 and the points the sum of the player's stored points_earned.
C9_TotalsAreFoldOfHistory == Consistent(season_players, matches)

RECURSIVE RowsAsEntries(_)
RowsAsEntries(rows) ==
    IF rows = {} THEN <<>>
    ELSE LET r == CHOOSE x \in rows : TRUE
         IN  <<Entry(r.player_id, r.wins_in_match)>> \o RowsAsEntries(rows \ {r})

\* C10: the stored position and points of every row are what the scorer
\* computes from the stored win-counts of the rows of the same match.
C10_StoredResultsAreDerived ==
    \A id \in DOMAIN matches :
        LET scored == MatchScorer(RowsAsEntries(matches[id]))
        IN  \A r \in matches[id] :
                \E k \in 1 .. Len(scored) :
                    /\ scored[k].playerId = r.player_id
                    /\ scored[k].position = r.position
                    /\ scored[k].pointsEarned = r.points_earned

(***************************************************************************)
(* ScoreboardService, the service of the first schema (table players with  *)
(* wins and points per season): saveMatch adds a match's contribution,     *)
(* deleteMatch and updateMatch subtract the stored contribution.  Under    *)
(* SpecLegacy the variable season_players holds the rows of that players   *)
(* table and matches the rows of its match_players (player_id, position,   *)
(* points_earned).  The one failing call modelled is the fetch of a        *)
(* player's row in saveMatch, which the loop skips over with continue.     *)
(***************************************************************************)
\* number of matches the season of the first schema ever gets
MaxLegacyMatches == 2

\* the {playerId, position} list the service is called with
PositionsOnly(scored) ==
    [i \in 1 .. Len(scored) |-> [playerId |-> scored[i].playerId,
                                 position |-> scored[i].position]]

\* the lists the service is exercised on: the participants and competition
\* positions of the season's entry lists
LegacyForm == [cm \in SeasonEntryLists |-> PositionsOnly(ScoredForm[cm])]

LegacyPlayersAt(position, players) ==
    Cardinality({i \in 1 .. Len(players) : players[i].position = position})

\* calculatePoints local to ScoreboardService.saveMatch
LegacySavePoints(position, players) ==
    LET playersAtPosition == LegacyPlayersAt(position, players)
    IN  IF position = 1
        THEN IF playersAtPosition = 1 THEN Pts(3, 1)
             ELSE IF playersAtPosition = 2 THEN Pts(5, 2)
             ELSE Pts(2, 1)
        ELSE IF position = 2
        THEN IF playersAtPosition = 1 THEN Pts(1, 1)
             ELSE IF playersAtPosition = 2 THEN Pts(3, 2)
             ELSE 0
        ELSE 0

\* calculatePoints local to ScoreboardService.updateMatch
LegacyUpdatePoints(position, players) ==
    LET playersAtPosition == LegacyPlayersAt(position, players)
    IN  IF position = 1
        THEN IF playersAtPosition = 1 THEN Pts(3, 1)
             ELSE IF playersAtPosition = 2 THEN Pts(2, 1)
             ELSE Pts(2, 1)
        ELSE IF position = 2
        THEN IF playersAtPosition = 1 THEN Pts(1, 1)
             ELSE IF playersAtPosition = 2 THEN Pts(1, 2)
             ELSE 0
        ELSE 0

\* the subtraction written back as it comes out
ClampAtZeroSkipped(x) == x

\* Math.max(0, x)
ClampAtZero(x) == IF x > 0 THEN x ELSE 0

\* matchPlayerInserts: the match_players rows saveMatch inserts for the list
LegacySaveInserts(players) ==
    {[player_id |-> mp.playerId,
      position |-> mp.position,
      points_earned |-> Decimal52(LegacySavePoints(mp.position, players))] :
        mp \in Range(players)}

\* newMatchPlayerInserts: the match_players rows updateMatch inserts for the list
LegacyUpdateInserts(players) ==
    {[player_id |-> mp.playerId,
      position |-> mp.position,
      points_earned |-> Decimal52(LegacyUpdatePoints(mp.position, players))] :
        mp \in Range(players)}

\* the loop applying the rows of a match to the players table; the players of
\* skipped are those whose fetch failed
LegacyApply(sp, rows, skipped) ==
    [p \in DOMAIN sp |->
        IF p \in Participants(rows) \ skipped
        THEN LET mp == RowOf(rows, p)
             IN  [wins |-> IF mp.position = 1 THEN sp[p].wins + 1 ELSE sp[p].wins,
                  points |-> Decimal52(sp[p].points + mp.points_earned)]
        ELSE sp[p]]

\* the loop taking the stored rows of a match back out of the players table
LegacyRollback(sp, rows) ==
    [p \in DOMAIN sp |->
        IF p \in Participants(rows)
        THEN LET mp == RowOf(rows, p)
             IN  [wins |-> IF mp.position = 1 THEN ClampAtZero(sp[p].wins - 1)
                           ELSE sp[p].wins,
                  points |-> Decimal52(ClampAtZero(sp[p].points - mp.points_earned))]
        ELSE sp[p]]

\* a rollback of rows finds a total smaller than the contribution it subtracts
Underflows(sp, rows) ==
    \E mp \in rows :
        \/ sp[mp.player_id].points < mp.points_earned
        \/ mp.position = 1 /\ sp[mp.player_id].wins < 1

\* at most one fetch fails in one saveMatch
FailedFetches(players) == {{}} \cup {{mp.playerId} : mp \in Range(players)}

\* ScoreboardService.saveMatch(seasonId, matchPlayers)
LegacySaveMatch(matchPlayers, failed) ==
    /\ match_seq <= MaxLegacyMatches
    /\ failed \in FailedFetches(matchPlayers)
    /\ LET rows == LegacySaveInserts(matchPlayers)
       IN  /\ matches' = matches @@ (match_seq :> rows)
           /\ season_players' = LegacyApply(season_players, rows, failed)
    /\ match_seq' = match_seq + 1
    /\ probe' = NoProbe
    /\ UNCHANGED <<entries, resolved, phase, edits, views, page>>

\* ScoreboardService.deleteMatch(matchId)
LegacyDeleteMatch(matchId) ==
    /\ matchId \in DOMAIN matches
    /\ season_players' = LegacyRollback(season_players, matches[matchId])
    /\ matches' = [id \in DOMAIN matches \ {matchId} |-> matches[id]]
    /\ probe' = IF Underflows(season_players, matches[matchId])
                THEN [phase |-> "clamped"]
                ELSE NoProbe
    /\ UNCHANGED <<entries, resolved, phase, match_seq, edits, views, page>>

\* ScoreboardService.updateMatch(matchId, newMatchPlayers)
LegacyUpdateMatch(matchId, newMatchPlayers) ==
    /\ matchId \in DOMAIN matches
    /\ edits < MaxEdits
    /\ LET rolledBack == LegacyRollback(season_players, matches[matchId])
           rows == LegacyUpdateInserts(newMatchPlayers)
       IN  /\ matches' = [matches EXCEPT ![matchId] = rows]
           /\ season_players' = LegacyApply(rolledBack, rows, {})
    /\ probe' = IF Underflows(season_players, matches[matchId])
                THEN [phase |-> "clamped"]
                ELSE NoProbe
    /\ edits' = edits + 1
    /\ UNCHANGED <<entries, resolved, phase, match_seq, views, page>>

NextLegacy ==
    \/ \E cm \in SeasonEntryLists :
          \E failed \in SUBSET Roster : LegacySaveMatch(LegacyForm[cm], failed)
    \/ \E matchId \in 1 .. MaxLegacyMatches : LegacyDeleteMatch(matchId)
    \/ \E matchId \in 1 .. MaxLegacyMatches, em \in SeasonEntryLists :
          LegacyUpdateMatch(matchId, LegacyForm[em])

SpecLegacy == Init /\ [][NextLegacy]_vars

\* C11: no rollback leaves a negative statistic.  In every state reached by
\* save, edit and delete of matches every player of the season has wins >= 0
\* and points >= 0, also after a rollback that found a total smaller than the
\* contribution it subtracted.
C11_StatisticsNeverNegative ==
    \A p \in DOMAIN season_players :
        season_players[p].wins >= 0 /\ season_players[p].points >= 0

\* C11 witness: a match whose save skipped its winner was rolled back: the
\* subtraction met a total below the stored contribution and the winner
\* is left at zero wins and zero points
C11_Witness ==
    /\ probe.phase = "clamped"
    /\ matches = <<>>
    /\ \A p \in DOMAIN season_players : season_players[p] = [wins |-> 0, points |-> 0]

(***************************************************************************)
(* SeasonAggregator of the page: the computed leaderboard and              *)
(* getCurrentSeasonWinners over players, the roster of the current season. *)
(***************************************************************************)
\* largest roster handed to the leaderboard
MaxRoster == 3

\* players.name of the global players (UNIQUE): the names do not follow the
\* order of the ids
PlayerName == [p \in Players |->
                 IF p = "A" THEN "Zed" ELSE IF p = "B" THEN "Max"
                 ELSE IF p = "C" THEN "Amy" ELSE "Kim"]

\* the names in ascending collation order
NameOrder == <<"Amy", "Kim", "Max", "Zed">>

NameIndex(name) == CHOOSE i \in 1 .. Len(NameOrder) : NameOrder[i] = name

\* a.localeCompare(b): negative, zero or positive
localeCompare(a, b) == NameIndex(a) - NameIndex(b)

\* season totals shown on a leaderboard: points of 0, 7, 9 and 10
BoardPoints == {0, Pts(7, 1), Pts(9, 1), Pts(10, 1)}
BoardWins == {0, 1, 2}

\* the sort comparing points and name only
CompareBoardNoWins(a, b) ==
    IF b.points # a.points THEN b.points - a.points
    ELSE localeCompare(a.name, b.name)

\* the comparator of the leaderboard sort
CompareBoard(a, b) ==
    IF b.points # a.points THEN b.points - a.points
    ELSE IF b.wins # a.wins THEN b.wins - a.wins
    ELSE localeCompare(a.name, b.name)

\* Array.prototype.sort (stable) with the comparator of the leaderboard
InsertByBoard(e, t) ==
    LET k == Cardinality({i \in 1 .. Len(t) : CompareBoard(t[i], e) <= 0})
    IN  SubSeq(t, 1, k) \o <<e>> \o SubSeq(t, k + 1, Len(t))

RECURSIVE SortByBoard(_)
SortByBoard(s) ==
    IF s = <<>> THEN <<>>
    ELSE InsertByBoard(s[Len(s)], SortByBoard(SubSeq(s, 1, Len(s) - 1)))

\* a rank kept on equal points alone
KeepsRankOnPoints(player, prevPlayer) == player.points = prevPlayer.points

\* the condition under which currentRank is left as it is
KeepsRank(player, prevPlayer) ==
    ~(player.points # prevPlayer.points \/ player.wins # prevPlayer.wins)

\* currentRank = index + 1, index being 0-based
NextRank(index, currentRank) == index + 1

\* the map callback over sortedPlayers with the closure variable currentRank
RECURSIVE RanksLoop(_, _, _, _)
RanksLoop(sortedPlayers, index, currentRank, result) ==
    IF index >= Len(sortedPlayers) THEN result
    ELSE LET player == sortedPlayers[index + 1]
             rank == IF index > 0 /\ ~KeepsRank(player, sortedPlayers[index])
                     THEN NextRank(index, currentRank)
                     ELSE currentRank
         IN  RanksLoop(sortedPlayers, index + 1, rank,
                 Append(result, [playerId |-> player.playerId, name |-> player.name,
                                 wins |-> player.wins, points |-> player.points,
                                 rank |-> rank]))

\* the computed leaderboard
leaderboard(players) == RanksLoop(SortByBoard(players), 0, 1, <<>>)

\* Math.max(...players.map(p => p.points)), players not empty
MaxPoints(players) ==
    CHOOSE m \in {players[i].points : i \in 1 .. Len(players)} :
        \A i \in 1 .. Len(players) : players[i].points <= m

\* the winner being the first player found at the maximum
WinnersFirstOnly(players) ==
    IF Len(players) = 0 THEN <<>>
    ELSE LET maxPoints == MaxPoints(players)
         IN  <<players[CHOOSE i \in 1 .. Len(players) :
                   /\ players[i].points = maxPoints
                   /\ \A j \in 1 .. i - 1 : players[j].points # maxPoints]>>

\* getCurrentSeasonWinners over the roster of the current season
getCurrentSeasonWinners(players) ==
    IF Len(players) = 0 THEN <<>>
    ELSE LET maxPoints == MaxPoints(players)
             atMax(p) == p.points = maxPoints
         IN  SelectSeq(players, atMax)

\* the roster of the current season, the first of the loaded seasons
CurrentPlayers(ss) == IF ss = <<>> THEN <<>> ELSE ss[1].players

\* a roster row as getAllSeasons formats it
SeasonPlayer(p, wins, points) ==
    [playerId |-> p, name |-> PlayerName[p], wins |-> wins, points |-> points]

\* the totals a season can hold for a player: a win never comes without points
BoardTotals == {t \in [wins : BoardWins, points : BoardPoints] : t.wins > 0 => t.points > 0}

\* the roster naming the players in the order ord with the totals t
BoardRoster(ord, t) ==
    [i \in 1 .. Len(ord) |-> SeasonPlayer(ord[i], t[i].wins, t[i].points)]

\* loadSeasons returned one season: a roster of at most MaxRoster players in
\* any order, no match
InitBoard ==
    /\ \E k \in 0 .. MaxRoster :
          \E ord \in PlayerOrders(k), t \in [1 .. k -> BoardTotals] :
              seasons = <<[id |-> 1, players |-> BoardRoster(ord, t), matches |-> <<>>]>>
    /\ board = <<>>
    /\ winners = <<>>
    /\ ranking = <<>>
    /\ badges = <<>>
    /\ details = <<>>
    /\ entries = <<>>
    /\ resolved = <<>>
    /\ phase = "loaded"
    /\ InitTables
    /\ InitPage

\* the season view is rendered: leaderboard and the season winners
RenderSeason ==
    /\ phase = "loaded"
    /\ board' = leaderboard(CurrentPlayers(seasons))
    /\ winners' = getCurrentSeasonWinners(CurrentPlayers(seasons))
    /\ phase' = "ranked"
    /\ UNCHANGED <<entries, resolved, tables, seasons, ranking, badges, details, page>>

NextBoard == RenderSeason

SpecBoard == InitBoard /\ [][NextBoard]_vars

(***************************************************************************)
(* Properties of the season view, under SpecBoard.                         *)
(***************************************************************************)
\* the reorderings of a list
Reorderings(s) ==
    {[i \in 1 .. Len(s) |-> s[f[i]]] :
        f \in {g \in [1 .. Len(s) -> 1 .. Len(s)] :
                  \A i, j \in 1 .. Len(s) : i # j => g[i] # g[j]}}

\* a leaderboard entry without its rank
Unranked(e) == [playerId |-> e.playerId, name |-> e.name, wins |-> e.wins, points |-> e.points]

\* the order of a leaderboard: its entries without their ranks
OrderOf(b) == [i \in 1 .. Len(b) |-> Unranked(b[i])]

\* C12: the leaderboard is a permutation of the roster ordered by points
\* descending, then wins descending, then name ascending, and the same for
\* every order in which the roster is handed in (names being distinct).
C12_LeaderboardOrder ==
    phase = "ranked" =>
        LET players == CurrentPlayers(seasons)
        IN  /\ Len(board) = Len(players)
            /\ {Unranked(board[i]) : i \in 1 .. Len(board)} = Range(players)
            /\ \A i \in 1 .. Len(board) - 1 :
                  LET p == board[i]
                      q == board[i + 1]
                  IN  \/ p.points > q.points
                      \/ p.points = q.points /\ p.wins > q.wins
                      \/ /\ p.points = q.points
                         /\ p.wins = q.wins
                         /\ NameIndex(p.name) <= NameIndex(q.name)
            /\ \A other \in Reorderings(players) : OrderOf(leaderboard(other)) = OrderOf(board)

\* C12 witness: a roster of three players on equal points, handed in with the
\* last of the leaderboard first; one pair is separated by wins, one by name
C12_Witness ==
    /\ phase = "ranked"
    /\ Len(board) = 3
    /\ board[1].points = board[3].points
    /\ board[1].wins > board[2].wins
    /\ board[2].wins = board[3].wins
    /\ CurrentPlayers(seasons)[1] = Unranked(board[3])

\* C13: the first entry has rank 1; an entry takes the rank of the entry
\* before it exactly when both its points and its wins are the same, and its
\* 1-based index otherwise.  So equal points and equal wins always share a
\* rank and equal points with different wins never do.
C13_LeaderboardRanks ==
    phase = "ranked" =>
        /\ (board # <<>> => board[1].rank = 1)
        /\ \A i \in 2 .. Len(board) :
              IF board[i].points = board[i - 1].points /\ board[i].wins = board[i - 1].wins
              THEN board[i].rank = board[i - 1].rank
              ELSE board[i].rank = i
        /\ \A a, b \in Range(board) :
              /\ (a.points = b.points /\ a.wins = b.wins => a.rank = b.rank)
              /\ (a.points = b.points /\ a.wins # b.wins => a.rank # b.rank)

\* C13 witness: two players share rank 1 and the next player has rank 3
C13_Witness ==
    /\ phase = "ranked"
    /\ Len(board) = 3
    /\ board[2].rank = 1
    /\ board[3].rank = 3

\* the points of a roster, in roster order, in whole points
PointsOf(players) == [i \in 1 .. Len(players) |-> players[i].points \div One]

\* the players of a roster with no player above them in points
AtMaxPoints(players) ==
    {p \in Range(players) : \A q \in Range(players) : q.points <= p.points}

\* C14: the season winners are exactly the roster players at the maximum
\* points: none for an empty roster only, every player tied at the maximum,
\* nobody below it; [10,10,7] has 2 winners, [10,9,9] has 1, and a roster on
\* 0 points throughout has every player as a winner.
C14_SeasonWinners ==
    phase = "ranked" =>
        LET players == CurrentPlayers(seasons)
        IN  /\ Range(winners) = AtMaxPoints(players)
            /\ Len(winners) = Cardinality(AtMaxPoints(players))
            /\ (winners = <<>> <=> players = <<>>)
            /\ (PointsOf(players) = <<10, 10, 7>> => Len(winners) = 2)
            /\ (PointsOf(players) = <<10, 9, 9>> => Len(winners) = 1)
            /\ ((\A q \in Range(players) : q.points = 0) => Len(winners) = Len(players))

\* C14 witness: the roster with points 10, 10 and 7 has been rendered
C14_Witness ==
    /\ phase = "ranked"
    /\ PointsOf(CurrentPlayers(seasons)) = <<10, 10, 7>>
    /\ Len(winners) = 2

\* C15: the players of leaderboard rank 1 are season winners, and there are
\* more season winners than players of rank 1 exactly when players tied at
\* the maximum points differ in wins.
C15_WinnersVersusRankOne ==
    phase = "ranked" =>
        LET rankOne == {e.playerId : e \in {x \in Range(board) : x.rank = 1}}
            won == {w.playerId : w \in Range(winners)}
            top == AtMaxPoints(CurrentPlayers(seasons))
        IN  /\ rankOne \subseteq won
            /\ (won # rankOne <=> \E a, b \in top : a.wins # b.wins)

\* C15 witness: a season winner stands at a leaderboard rank greater than 1
C15_Witness ==
    /\ phase = "ranked"
    /\ \E w \in Range(winners) : \E e \in Range(board) :
          e.playerId = w.playerId /\ e.rank > 1

(***************************************************************************)
(* The leaderboard of src/App.vue, the page entering positions: the same   *)
(* sort, the rank being the 1-based index.                                 *)
(***************************************************************************)
\* the computed leaderboard of src/App.vue
leaderboardByIndex(players) ==
    LET sorted == SortByBoard(players)
    IN  [index \in 1 .. Len(sorted) |->
            [playerId |-> sorted[index].playerId, name |-> sorted[index].name,
             wins |-> sorted[index].wins, points |-> sorted[index].points,
             rank |-> index]]

\* the season view of src/App.vue is rendered
RenderSeasonByIndex ==
    /\ phase = "loaded"
    /\ board' = leaderboardByIndex(CurrentPlayers(seasons))
    /\ winners' = getCurrentSeasonWinners(CurrentPlayers(seasons))
    /\ phase' = "ranked"
    /\ UNCHANGED <<entries, resolved, tables, seasons, ranking, badges, details, page>>

NextBoardByIndex == RenderSeasonByIndex

SpecBoardByIndex == InitBoard /\ [][NextBoardByIndex]_vars

(***************************************************************************)
(* GlobalAggregator of the page: the computed globalWinsRanking with its   *)
(* champion badge, getSeasonWinsForPlayer, getTotalMatchWinsForPlayer and  *)
(* the season-win count of getDetailedPlayerStats, over all the seasons.   *)
(* A match player is read as the page reads it, with winsInMatch; one      *)
(* loaded without that field counts as 0 (winsInMatch || 0), the case of   *)
(* a player outside the match here.                                        *)
(***************************************************************************)
\* most seasons loaded at once
MaxSeasons == 3
\* most (season, player) pairs the loaded seasons are drawn over
MaxCells == 6

\* match.players.find(p => p.playerId === playerId)?.winsInMatch || 0
WinsInMatchOf(match, playerId) ==
    LET found == {i \in 1 .. Len(match.players) : match.players[i].playerId = playerId}
    IN  IF found = {} THEN 0
        ELSE match.players[CHOOSE i \in found : \A j \in found : i <= j].winsInMatch

\* season.matches.reduce((total, match) => total + ..., 0)
RECURSIVE MatchVictories(_, _)
MatchVictories(ms, playerId) ==
    IF ms = <<>> THEN 0
    ELSE WinsInMatchOf(ms[1], playerId) + MatchVictories(Tail(ms), playerId)

\* seasonWinners of one season: the ids of the players at the maximum points
SeasonWinnerIds(season) ==
    IF Len(season.players) > 0
    THEN LET maxPoints == MaxPoints(season.players)
             atMax(p) == p.points = maxPoints
         IN  {w.playerId : w \in Range(SelectSeq(season.players, atMax))}
    ELSE {}

\* a season win never counted beyond the first
AddSeasonWinOnce(seasonWins, isSeasonWinner) ==
    IF isSeasonWinner THEN 1 ELSE seasonWins

\* if (isSeasonWinner) existing.seasonWins += 1
AddSeasonWin(seasonWins, isSeasonWinner) ==
    IF isSeasonWinner THEN seasonWins + 1 ELSE seasonWins

\* season.players.forEach(player => ...): statsMap is playerStatsMap as the
\* list of its entries in insertion order, i the 1-based index of the player
RECURSIVE AccumulatePlayers(_, _, _, _)
AccumulatePlayers(statsMap, season, seasonWinners, i) ==
    IF i > Len(season.players) THEN statsMap
    ELSE LET player == season.players[i]
             existing == {k \in 1 .. Len(statsMap) : statsMap[k].playerId = player.playerId}
             isSeasonWinner == player.playerId \in seasonWinners
             matchVictories == MatchVictories(season.matches, player.playerId)
             next ==
                 IF existing # {}
                 THEN LET k == CHOOSE x \in existing : TRUE
                      IN  [statsMap EXCEPT ![k] =
                              [@ EXCEPT !.totalMatchWins = @ + player.wins,
                                        !.totalMatchVictories = @ + matchVictories,
                                        !.seasonWins = AddSeasonWin(@, isSeasonWinner),
                                        !.seasonsParticipated = @ + 1]]
                 ELSE Append(statsMap,
                          [playerId |-> player.playerId,
                           name |-> player.name,
                           totalMatchWins |-> player.wins,
                           totalMatchVictories |-> matchVictories,
                           seasonWins |-> IF isSeasonWinner THEN 1 ELSE 0,
                           seasonsParticipated |-> 1])
         IN  AccumulatePlayers(next, season, seasonWinners, i + 1)

\* seasons.value.forEach(season => ...)
RECURSIVE AccumulateSeasons(_, _)
AccumulateSeasons(statsMap, ss) ==
    IF ss = <<>> THEN statsMap
    ELSE AccumulateSeasons(
             AccumulatePlayers(statsMap, ss[1], SeasonWinnerIds(ss[1]), 1), Tail(ss))

\* the sort without the match victories as a key
CompareGlobalNoVictories(a, b) ==
    IF b.seasonWins # a.seasonWins THEN b.seasonWins - a.seasonWins
    ELSE IF b.totalMatchWins # a.totalMatchWins THEN b.totalMatchWins - a.totalMatchWins
    ELSE localeCompare(a.name, b.name)

\* the comparator of the global ranking sort
CompareGlobal(a, b) ==
    IF b.seasonWins # a.seasonWins THEN b.seasonWins - a.seasonWins
    ELSE IF b.totalMatchWins # a.totalMatchWins THEN b.totalMatchWins - a.totalMatchWins
    ELSE IF b.totalMatchVictories # a.totalMatchVictories
    THEN b.totalMatchVictories - a.totalMatchVictories
    ELSE localeCompare(a.name, b.name)

\* Array.prototype.sort (stable) with the comparator of the global ranking
InsertByGlobal(e, t) ==
    LET k == Cardinality({i \in 1 .. Len(t) : CompareGlobal(t[i], e) <= 0})
    IN  SubSeq(t, 1, k) \o <<e>> \o SubSeq(t, k + 1, Len(t))

RECURSIVE SortByGlobal(_)
SortByGlobal(s) ==
    IF s = <<>> THEN <<>>
    ELSE InsertByGlobal(s[Len(s)], SortByGlobal(SubSeq(s, 1, Len(s) - 1)))

\* the computed globalWinsRanking
globalWinsRanking(ss) == SortByGlobal(AccumulateSeasons(<<>>, ss))

\* the badge measured against the last item of the ranking
BadgeReferenceLast(rk) == rk[Len(rk)].seasonWins

\* globalWinsRanking[0].seasonWins
BadgeReference(rk) == rk[1].seasonWins

\* the v-if of the champion-badge (and the rank-champion class) of an item
ChampionBadge(rk, player) ==
    Len(rk) > 0 /\ player.seasonWins = BadgeReference(rk) /\ player.seasonWins > 0

\* getSeasonWinsForPlayer
RECURSIVE getSeasonWinsForPlayer(_, _)
getSeasonWinsForPlayer(ss, playerId) ==
    IF ss = <<>> THEN 0
    ELSE (IF Len(ss[1].players) = 0 THEN 0
          ELSE IF playerId \in SeasonWinnerIds(ss[1]) THEN 1 ELSE 0)
         + getSeasonWinsForPlayer(Tail(ss), playerId)

\* getTotalMatchWinsForPlayer: the sum of winsInMatch over all seasons
RECURSIVE getTotalMatchWinsForPlayer(_, _)
getTotalMatchWinsForPlayer(ss, playerId) ==
    IF ss = <<>> THEN 0
    ELSE MatchVictories(ss[1].matches, playerId)
         + getTotalMatchWinsForPlayer(Tail(ss), playerId)

\* getDetailedPlayerStats: stats.seasonWins
RECURSIVE DetailedSeasonWins(_, _)
DetailedSeasonWins(ss, playerId) ==
    IF ss = <<>> THEN 0
    ELSE LET season == ss[1]
             playerInSeason == \E i \in 1 .. Len(season.players) :
                                   season.players[i].playerId = playerId
         IN  (IF playerInSeason /\ Len(season.players) > 0
                 /\ playerId \in SeasonWinnerIds(season)
              THEN 1 ELSE 0)
             + DetailedSeasonWins(Tail(ss), playerId)

(***************************************************************************)
(* SpecGlobal: the global views over every collection of loaded seasons.   *)
(* The views are functions of seasons.value (props.seasons in ViewTab):    *)
(* the seasons are drawn from what the tables season_players and           *)
(* match_players can hold, wins_in_match included.  getAllSeasons of       *)
(* ScoreboardServiceV2 copies no wins_in_match into the loaded matches, so *)
(* with that loader every winsInMatch read by the views is 0.              *)
(***************************************************************************)
\* a player's place in a season roster: not on it (removed or never added),
\* on it without points, or on it with a win of 3 points
RosterCells ==
    {[present |-> FALSE, wins |-> 0, points |-> 0],
     [present |-> TRUE, wins |-> 0, points |-> 0],
     [present |-> TRUE, wins |-> 1, points |-> Pts(3, 1)]}

\* a player's place in the season's match: outside it, or in it with 2 wins
MatchCells ==
    {[present |-> FALSE, winsInMatch |-> 0],
     [present |-> TRUE, winsInMatch |-> 2]}

Cells == [roster : RosterCells, match : MatchCells]

\* the players n seasons are drawn over: as many of the roster order as
\* MaxCells allows
SheetPlayers(n) ==
    LET most == IF n = 0 THEN Len(RosterOrder) ELSE MaxCells \div n
    IN  SubSeq(RosterOrder, 1, IF most < Len(RosterOrder) THEN most ELSE Len(RosterOrder))

\* the season of a sheet as the views read it: the roster rows of the players
\* on the roster, and one match holding the players who played it (a player
\* removed by removePlayerFromSeason is in the match without being on the
\* roster)
SeasonOf(id, order, sheet) ==
    LET onRoster(p) == sheet[p].roster.present
        inMatch(p) == sheet[p].match.present
        listed == SelectSeq(order, onRoster)
        played == SelectSeq(order, inMatch)
    IN  [id |-> id,
         players |-> [i \in 1 .. Len(listed) |->
                         SeasonPlayer(listed[i], sheet[listed[i]].roster.wins,
                                      sheet[listed[i]].roster.points)],
         matches |-> IF played = <<>> THEN <<>>
                     ELSE <<[id |-> id,
                             players |-> MatchScorer(
                                 [i \in 1 .. Len(played) |->
                                     [playerId |-> played[i],
                                      winsInMatch |-> sheet[played[i]].match.winsInMatch]])]>>]

\* loadSeasons returned up to MaxSeasons seasons
InitGlobal ==
    /\ \E n \in 0 .. MaxSeasons :
          \E sheets \in [1 .. n -> [Range(SheetPlayers(n)) -> Cells]] :
              seasons = [s \in 1 .. n |-> SeasonOf(s, SheetPlayers(n), sheets[s])]
    /\ board = <<>>
    /\ winners = <<>>
    /\ ranking = <<>>
    /\ badges = <<>>
    /\ details = <<>>
    /\ entries = <<>>
    /\ resolved = <<>>
    /\ phase = "loaded"
    /\ InitTables
    /\ InitPage

\* the global view is rendered: the ranking with its badges, and the
\* per-player functions called for every global player
RenderGlobal ==
    /\ phase = "loaded"
    /\ LET rk == globalWinsRanking(seasons)
       IN  /\ ranking' = rk
           /\ badges' = [i \in 1 .. Len(rk) |-> ChampionBadge(rk, rk[i])]
    /\ details' = [p \in Players |->
                      [seasonWins |-> getSeasonWinsForPlayer(seasons, p),
                       totalMatchWins |-> getTotalMatchWinsForPlayer(seasons, p),
                       detailedSeasonWins |-> DetailedSeasonWins(seasons, p)]]
    /\ phase' = "ranked"
    /\ UNCHANGED <<entries, resolved, tables, seasons, board, winners, page>>

NextGlobal == RenderGlobal

SpecGlobal == InitGlobal /\ [][NextGlobal]_vars

(***************************************************************************)
(* Properties of the global views, under SpecGlobal.                       *)
(***************************************************************************)
\* the winner set of a season: the ids of its roster players with no player
\* of the roster above them in points
WinnerSet(season) == {p.playerId : p \in AtMaxPoints(season.players)}

\* the number of seasons whose winner set holds the player
SeasonsWonBy(ss, playerId) ==
    Cardinality({s \in 1 .. Len(ss) : playerId \in WinnerSet(ss[s])})

\* C16: seasonWins is the number of seasons in whose winner set the player is
\* (a player tied for first in 3 seasons has 3), in the global ranking, in
\* getSeasonWinsForPlayer and in getDetailedPlayerStats alike.
C16_SeasonWinsCount ==
    phase = "ranked" =>
        /\ \A i \in 1 .. Len(ranking) :
              ranking[i].seasonWins = SeasonsWonBy(seasons, ranking[i].playerId)
        /\ \A p \in Players :
              /\ details[p].seasonWins = SeasonsWonBy(seasons, p)
              /\ details[p].detailedSeasonWins = SeasonsWonBy(seasons, p)

\* C16 witness: three seasons, each won jointly, and a player with 3 season wins
C16_Witness ==
    /\ phase = "ranked"
    /\ Len(seasons) = 3
    /\ \A s \in 1 .. 3 : Cardinality(WinnerSet(seasons[s])) = 2
    /\ \E i \in 1 .. Len(ranking) : ranking[i].seasonWins = 3

\* the match results of a player: season, match and place in the match
ResultsOf(ss, playerId) ==
    {r \in UNION {{<<s, m, i>> : m \in 1 .. Len(ss[s].matches), i \in 1 .. MaxRoster} :
                     s \in 1 .. Len(ss)} :
        /\ r[3] <= Len(ss[r[1]].matches[r[2]].players)
        /\ ss[r[1]].matches[r[2]].players[r[3]].playerId = playerId}

RECURSIVE SumOfWins(_, _)
SumOfWins(ss, results) ==
    IF results = {} THEN 0
    ELSE LET r == CHOOSE x \in results : TRUE
         IN  ss[r[1]].matches[r[2]].players[r[3]].winsInMatch
             + SumOfWins(ss, results \ {r})

RosterIds(ss) ==
    UNION {{ss[s].players[i].playerId : i \in 1 .. Len(ss[s].players)} : s \in 1 .. Len(ss)}

\* C18: the global ranking has one entry per player id found on any roster
\* and is ordered by seasonWins, totalMatchWins and totalMatchVictories
\* descending, then name ascending: no entry is worse than the entry after it.
C18_GlobalRankingOrder ==
    phase = "ranked" =>
        /\ {ranking[i].playerId : i \in 1 .. Len(ranking)} = RosterIds(seasons)
        /\ Len(ranking) = Cardinality(RosterIds(seasons))
        /\ \A i \in 1 .. Len(ranking) - 1 :
              LET a == ranking[i]
                  b == ranking[i + 1]
              IN  \/ a.seasonWins > b.seasonWins
                  \/ a.seasonWins = b.seasonWins /\ a.totalMatchWins > b.totalMatchWins
                  \/ /\ a.seasonWins = b.seasonWins
                     /\ a.totalMatchWins = b.totalMatchWins
                     /\ a.totalMatchVictories > b.totalMatchVictories
                  \/ /\ a.seasonWins = b.seasonWins
                     /\ a.totalMatchWins = b.totalMatchWins
                     /\ a.totalMatchVictories = b.totalMatchVictories
                     /\ NameIndex(a.name) <= NameIndex(b.name)

\* C18 witness: three ranked players; the first two are level on season wins
\* and match wins and the match victories put the later name first
C18_Witness ==
    /\ phase = "ranked"
    /\ Len(ranking) = 3
    /\ ranking[1].seasonWins = ranking[2].seasonWins
    /\ ranking[1].totalMatchWins = ranking[2].totalMatchWins
    /\ ranking[1].totalMatchVictories > ranking[2].totalMatchVictories
    /\ NameIndex(ranking[1].name) > NameIndex(ranking[2].name)
    /\ ranking[2].seasonWins > ranking[3].seasonWins

\* C19: an item of the global ranking carries the champion badge if and only
\* if its seasonWins are the maximum of the ranking and greater than 0.
C19_ChampionBadge ==
    phase = "ranked" =>
        /\ Len(badges) = Len(ranking)
        /\ \A i \in 1 .. Len(ranking) :
              badges[i] <=>
                  /\ \A j \in 1 .. Len(ranking) : ranking[j].seasonWins <= ranking[i].seasonWins
                  /\ ranking[i].seasonWins > 0

\* C19 witness: two champions level at two season wins and a third player
\* with a season win but no badge
C19_Witness ==
    /\ phase = "ranked"
    /\ badges = <<TRUE, TRUE, FALSE>>
    /\ ranking[1].seasonWins = 2
    /\ ranking[3].seasonWins = 1

(***************************************************************************)
(* Order-independence of the scorer, under SpecScore.                      *)
(***************************************************************************)
\* what the scorer gives each player of a scored list: position and points
OutcomeOf(scored) ==
    {[playerId |-> r.playerId, position |-> r.position, pointsEarned |-> r.pointsEarned] :
        r \in Range(scored)}

\* the lists obtained from a list by exchanging two of its entries
Exchanges(s) ==
    {[s EXCEPT ![i] = s[j], ![j] = s[i]] : i, j \in 1 .. Len(s)}

\* C20: resolution does not depend on the order of the raw entries: exchanging
\* any two entries of the input leaves every player with the same position
\* and the same pointsEarned, whatever the order in which the sort leaves
\* entries of equal win-counts.  Every ordering of a set of entries is an
\* input of SpecScore and is reached from any other by such exchanges, so all
\* orderings of the same entries have the same outcome.
C20_OrderIndependence ==
    phase = "scored" =>
        /\ Cardinality(OutcomeOf(resolved)) = Len(entries)
        /\ \A other \in Exchanges(entries) :
              OutcomeOf(MatchScorer(other)) = OutcomeOf(resolved)

\* C20 witness: four entries not entered in descending order, two of them
\* level on wins and entered apart, scored
C20_Witness ==
    /\ phase = "scored"
    /\ Len(entries) = 4
    /\ entries[1].winsInMatch < entries[2].winsInMatch
    /\ entries[1].winsInMatch = entries[4].winsInMatch
    /\ entries[3].winsInMatch > entries[2].winsInMatch
    /\ \E a, b \in Range(resolved) :
          a.playerId # b.playerId /\ a.position = b.position /\ a.position > 1

(***************************************************************************)
(* SpecEntry: the match forms of the page.  currentMatch.value is the      *)
(* variable entries; the add-match and edit-match inputs call              *)
(* addToCurrentMatch / updateEditingMatchPlayer on every input event with  *)
(* parseInt(value) || 0, which is any integer the user types: min="0" on   *)
(* the input element stops no input event.                                 *)
(***************************************************************************)
\* number of matches saved from the add-match form in one run
MaxPageMatches == 1
\* number of players a form holds at a time
MaxFormEntries == 2

\* the integers typed into a wins input: a negative one, an empty input or 0,
\* and a positive one
EntryValues == {-1, 0, 1}

\* the form has room for an entry of the player
HasRoomFor(list, playerId) ==
    \/ \E i \in 1 .. Len(list) : list[i].playerId = playerId
    \/ Len(list) < MaxFormEntries

\* list.filter(m => m.playerId !== playerId)
WithoutPlayer(list, playerId) ==
    LET other(m) == m.playerId # playerId
    IN  SelectSeq(list, other)

\* the entry pushed without removing the player's earlier entry
PutEntryAppended(list, playerId, winsInMatch) ==
    SortByWinsDesc(Append(list, [playerId |-> playerId, winsInMatch |-> winsInMatch]))

\* the three statements of addToCurrentMatch and of updateEditingMatchPlayer:
\* filter the player out, push the new entry, sort by winsInMatch descending
PutEntry(list, playerId, winsInMatch) ==
    SortByWinsDesc(Append(WithoutPlayer(list, playerId),
                          [playerId |-> playerId, winsInMatch |-> winsInMatch]))

addToCurrentMatch(playerId, winsInMatch) ==
    /\ HasRoomFor(entries, playerId)
    /\ entries' = PutEntry(entries, playerId, winsInMatch)
    /\ UNCHANGED <<resolved, phase, tables, views, showAddMatchModal, editingMatch,
                   isLoading, inflight, writers, season_ids>>

removeFromCurrentMatch(playerId) ==
    /\ \E i \in 1 .. Len(entries) : entries[i].playerId = playerId
    /\ entries' = WithoutPlayer(entries, playerId)
    /\ UNCHANGED <<resolved, phase, tables, views, showAddMatchModal, editingMatch,
                   isLoading, inflight, writers, season_ids>>

\* the season is selected and its roster is not empty
openAddMatchModal ==
    /\ ~showAddMatchModal
    /\ entries' = <<>>
    /\ showAddMatchModal' = TRUE
    /\ UNCHANGED <<resolved, phase, tables, views, editingMatch, isLoading, inflight, writers, season_ids>>

closeAddMatchModal ==
    /\ showAddMatchModal
    /\ showAddMatchModal' = FALSE
    /\ entries' = <<>>
    /\ UNCHANGED <<resolved, phase, tables, views, editingMatch, isLoading, inflight, writers, season_ids>>

\* the rows of a stored match in the order of their positions, ties in roster
\* order, as the page holds them in match.players; winsInMatch is the value
\* of the wins_in_match column
LoadedPlayers(rows) ==
    LET RECURSIVE Listed(_, _)
        Listed(pos, i) ==
            IF pos > Len(RosterOrder) THEN <<>>
            ELSE IF i > Len(RosterOrder) THEN Listed(pos + 1, 1)
            ELSE (IF \E r \in rows : r.player_id = RosterOrder[i] /\ r.position = pos
                  THEN <<[playerId |-> RosterOrder[i],
                          winsInMatch |-> RowOf(rows, RosterOrder[i]).wins_in_match]>>
                  ELSE <<>>) \o Listed(pos, i + 1)
    IN  Listed(1, 1)

startEditingMatch(matchId) ==
    /\ matchId \in DOMAIN matches
    /\ ~editingMatch.present
    /\ edits < MaxEdits
    /\ editingMatch' = [present |-> TRUE, id |-> matchId,
                        players |-> LoadedPlayers(matches[matchId])]
    /\ UNCHANGED <<entries, resolved, phase, tables, views, showAddMatchModal,
                   isLoading, inflight, writers, season_ids>>

cancelEditingMatch ==
    /\ editingMatch.present
    /\ editingMatch' = NoEdit
    /\ UNCHANGED <<entries, resolved, phase, tables, views, showAddMatchModal,
                   isLoading, inflight, writers, season_ids>>

updateEditingMatchPlayer(playerId, winsInMatch) ==
    /\ editingMatch.present
    /\ HasRoomFor(editingMatch.players, playerId)
    /\ editingMatch' = [editingMatch EXCEPT
                           !.players = PutEntry(editingMatch.players, playerId, winsInMatch)]
    /\ UNCHANGED <<entries, resolved, phase, tables, views, showAddMatchModal,
                   isLoading, inflight, writers, season_ids>>

removeEditingMatchPlayer(playerId) ==
    /\ editingMatch.present
    /\ \E i \in 1 .. Len(editingMatch.players) : editingMatch.players[i].playerId = playerId
    /\ editingMatch' = [editingMatch EXCEPT
                           !.players = WithoutPlayer(editingMatch.players, playerId)]
    /\ UNCHANGED <<entries, resolved, phase, tables, views, showAddMatchModal,
                   isLoading, inflight, writers, season_ids>>

\* page saveMatch on currentMatch.value, through ScoreboardServiceV2.saveMatch,
\* every call succeeding: the scorer runs on the entries as they are
PageSaveMatch ==
    /\ Len(entries) # 0
    /\ ~isLoading
    /\ match_seq <= MaxPageMatches
    /\ LET matchPlayersWithPoints == MatchScorer(entries)
           id == match_seq
           who == {mp.playerId : mp \in Range(matchPlayersWithPoints)}
           resultOf(p) == CHOOSE mp \in Range(matchPlayersWithPoints) : mp.playerId = p
       IN  /\ resolved' = matchPlayersWithPoints
           /\ matches' = matches @@ (id :> MatchPlayerInserts(matchPlayersWithPoints))
           /\ match_seq' = id + 1
           /\ season_players' =
                 [p \in Roster |->
                     IF p \in who
                     THEN updatePlayerStats(season_players[p], resultOf(p),
                                            matchPlayersWithPoints)
                     ELSE season_players[p]]
    /\ probe' = NoProbe
    /\ entries' = <<>>
    /\ showAddMatchModal' = FALSE
    /\ UNCHANGED <<phase, edits, views, editingMatch, isLoading, inflight, writers, season_ids>>

\* page saveMatchEdit on editingMatch.value, through
\* ScoreboardServiceV2.updateMatch, every call succeeding; the edited list
\* holds at least one player
PageSaveMatchEdit ==
    /\ editingMatch.present
    /\ ~isLoading
    /\ edits < MaxEdits
    /\ Len(editingMatch.players) # 0
    /\ LET matchPlayersWithPoints == MatchScorer(editingMatch.players)
           matchId == editingMatch.id
           replaced == [matches EXCEPT ![matchId] = MatchPlayerInserts(matchPlayersWithPoints)]
       IN  /\ resolved' = matchPlayersWithPoints
           /\ matches' = replaced
           /\ season_players' =
                 [p \in Roster |->
                     IF p \in RecalculatedOnUpdate(matches[matchId], matchPlayersWithPoints)
                     THEN recalculatePlayerStats(replaced, p)
                     ELSE season_players[p]]
    /\ probe' = NoProbe
    /\ edits' = edits + 1
    /\ editingMatch' = NoEdit
    /\ UNCHANGED <<entries, phase, match_seq, views, showAddMatchModal, isLoading,
                   inflight, writers, season_ids>>

NextEntry ==
    \/ \E playerId \in Roster, winsInMatch \in EntryValues :
          addToCurrentMatch(playerId, winsInMatch)
    \/ \E playerId \in Roster : removeFromCurrentMatch(playerId)
    \/ openAddMatchModal
    \/ closeAddMatchModal
    \/ \E matchId \in 1 .. MaxPageMatches : startEditingMatch(matchId)
    \/ cancelEditingMatch
    \/ \E playerId \in Roster, winsInMatch \in EntryValues :
          updateEditingMatchPlayer(playerId, winsInMatch)
    \/ \E playerId \in Roster : removeEditingMatchPlayer(playerId)
    \/ PageSaveMatch
    \/ PageSaveMatchEdit

SpecEntry == Init /\ [][NextEntry]_vars

(***************************************************************************)
(* Properties of the match forms, under SpecEntry.                         *)
(***************************************************************************)
\* C21: invalid match input is rejected and never scored: a list scored and
\* stored (resolved is written only by the handlers that store a match)
\* holds no negative winsInMatch and no playerId twice.
C21_InvalidInputRejected ==
    /\ \A r \in Range(resolved) : r.winsInMatch >= 0
    /\ \A i, j \in 1 .. Len(resolved) : i # j => resolved[i].playerId # resolved[j].playerId

\* at most one entry per playerId, sorted by winsInMatch descending
WellFormedEntries(list) ==
    /\ \A i, j \in 1 .. Len(list) : i # j => list[i].playerId # list[j].playerId
    /\ \A i \in 1 .. Len(list) - 1 : list[i].winsInMatch >= list[i + 1].winsInMatch

\* the entries of next are those of list, the player's entry replaced
Replaced(list, next, playerId, winsInMatch) ==
    Range(next) = {m \in Range(list) : m.playerId # playerId}
                      \cup {[playerId |-> playerId, winsInMatch |-> winsInMatch]}

\* what addToCurrentMatch / updateEditingMatchPlayer make of a list, for every
\* player and value: the player's entry replaced, the others kept
ReplacesOnAdd(list) ==
    \A playerId \in Roster, winsInMatch \in EntryValues :
        Replaced(list, PutEntry(list, playerId, winsInMatch), playerId, winsInMatch)

MaxWriters == 2

\* a row fetched as empty statistics whatever the table holds
FetchRowZero(sp, playerId) == [wins |-> 0, points |-> 0]

\* updatePlayerStats, the select ... single(): the row as it is now
FetchRow(sp, playerId) == sp[playerId]

Running(w) == w.pc # "done"

\* saveMatch up to its loop: the match and its match_players rows inserted
BeginSave(cm) ==
    /\ Len(writers) < MaxWriters
    /\ match_seq <= MaxMatches
    /\ LET matchPlayers == ScoredForm[cm]
           overlaps == \E i \in 1 .. Len(writers) : Running(writers[i])
       IN  /\ matches' = matches @@ (match_seq :> MatchPlayerInserts(matchPlayers))
           /\ writers' = Append([i \in 1 .. Len(writers) |->
                                    [writers[i] EXCEPT !.alone = @ /\ ~Running(writers[i])]],
                                [list |-> matchPlayers, next |-> 1, pc |-> "fetch",
                                 currentStats |-> [wins |-> 0, points |-> 0],
                                 alone |-> ~overlaps])
    /\ match_seq' = match_seq + 1
    /\ probe' = NoProbe
    /\ UNCHANGED <<entries, resolved, phase, season_players, edits, views,
                   showAddMatchModal, editingMatch, isLoading, inflight, season_ids>>

\* updatePlayerStats of writer w for the player its loop is at: the fetch
FetchStats(w) ==
    /\ w \in 1 .. Len(writers)
    /\ writers[w].pc = "fetch"
    /\ writers' = [writers EXCEPT
                      ![w].currentStats =
                          FetchRow(season_players, writers[w].list[writers[w].next].playerId),
                      ![w].pc = "update"]
    /\ UNCHANGED <<entries, resolved, phase, tables, views,
                   showAddMatchModal, editingMatch, isLoading, inflight, season_ids>>

\* updatePlayerStats of writer w: the update computed from what was fetched;
\* the loop moves to the next player or the call returns
UpdateStats(w) ==
    /\ w \in 1 .. Len(writers)
    /\ writers[w].pc = "update"
    /\ LET playerResult == writers[w].list[writers[w].next]
       IN  season_players' =
               [season_players EXCEPT ![playerResult.playerId] =
                   updatePlayerStats(writers[w].currentStats, playerResult, writers[w].list)]
    /\ writers' = [writers EXCEPT
                      ![w].next = @ + 1,
                      ![w].pc = IF writers[w].next = Len(writers[w].list)
                                THEN "done" ELSE "fetch"]
    /\ UNCHANGED <<entries, resolved, phase, matches, match_seq, probe, edits, views,
                   showAddMatchModal, editingMatch, isLoading, inflight, season_ids>>

NextRace ==
    \/ \E cm \in SeasonEntryLists : BeginSave(cm)
    \/ \E w \in 1 .. MaxWriters : FetchStats(w)
    \/ \E w \in 1 .. MaxWriters : UpdateStats(w)

SpecRace == Init /\ [][NextRace]_vars

\* every call returned
AllReturned == \A i \in 1 .. Len(writers) : ~Running(writers[i])

\* C22: the statistic update of saveMatch is a read-modify-write that loses
\* updates under concurrent writers: when the calls ran one after the other
\* every total is the sum of all stored contributions; when they overlapped
\* a total never exceeds that sum and can fall short of it (the witness).
C22_LostUpdate ==
    AllReturned =>
        /\ (\A i \in 1 .. Len(writers) : writers[i].alone) =>
               Consistent(season_players, matches)
        /\ \A p \in Roster :
              /\ season_players[p].wins <= FoldWins(matches, p)
              /\ season_players[p].points <= FoldPoints(matches, p)

\* C22 witness: two calls that overlapped have returned and a player who won
\* both matches alone has the win and the points of one match only
C22_Witness ==
    /\ Len(writers) = 2
    /\ AllReturned
    /\ \E p \in Roster :
          /\ FoldWins(matches, p) = 2
          /\ FoldPoints(matches, p) = Pts(6, 1)
          /\ season_players[p] = [wins |-> 1, points |-> Pts(3, 1)]

(***************************************************************************)
(* Exactness of the point totals, under Spec.                              *)
(***************************************************************************)
\* nothing but saves happened: no edit and no delete
OnlySaves == edits = 0 /\ Cardinality(DOMAIN matches) = match_seq - 1

\* the points the service awarded to a player over the stored matches, not
\* rounded
AwardedPoints(ms, playerId) == TotalPoints(ms, MatchesOf(ms, playerId), playerId)

\* C23: point accumulation is exact: after any sequence of saved matches a
\* player's stored points are the exact sum of the points awarded to the
\* player, and the total of the incremental updates is the total a
\* recalculation from the match history gives.
C23_ExactAccumulation ==
    OnlySaves =>
        \A p \in Roster :
            /\ season_players[p].points = AwardedPoints(matches, p)
            /\ season_players[p].points = recalculatePlayerStats(matches, p).points

(***************************************************************************)
(* getDetailedPlayerStats: the drill-down statistics of a player.          *)
(* Averages are kept in hundredths (Math.round(x * 100) / 100).            *)
(***************************************************************************)
\* null, and a number, as the value of bestPosition / worstPosition
Null == [present |-> FALSE, value |-> 0]
Some(v) == [present |-> TRUE, value |-> v]

\* Math.round((total / count) * 100) / 100 in hundredths, total and count
\* not negative, count not 0
RoundedRatio(total, count) == (200 * total + count) \div (2 * count)

\* the average with no test of the count: total / 0 gives NaN, shown as -1
AverageUnguarded(total, count) ==
    IF count > 0 THEN RoundedRatio(total, count) ELSE -1

\* an average of the block if (matchCount > 0): the field keeps its initial 0
\* when there is no match
Average(total, count) ==
    IF count > 0 THEN RoundedRatio(total, count) ELSE 0

\* if (position >= 1 && position <= 6)
InHistogram(position) == position >= 1 /\ position <= 6

\* the statistics before the first season
NoStats ==
    [totalMatches |-> 0, totalVictories |-> 0, totalPoints |-> 0, seasonWins |-> 0,
     positionStats |-> [pos \in 1 .. 6 |-> 0], seasonsParticipated |-> 0,
     bestPosition |-> Null, worstPosition |-> Null,
     totalPositionSum |-> 0, matchCount |-> 0]

\* the body of season.matches.forEach for a match holding playerInMatch
CountResult(stats, playerInMatch) ==
    LET position == playerInMatch.position
        counted == [stats EXCEPT !.totalMatches = @ + 1,
                                 !.matchCount = @ + 1,
                                 !.totalVictories = @ + playerInMatch.winsInMatch]
    IN  IF InHistogram(position)
        THEN [counted EXCEPT
                 !.positionStats =
                     [pos \in 1 .. 6 |-> IF pos = position THEN @[pos] + 1 ELSE @[pos]],
                 !.totalPositionSum = @ + position,
                 !.bestPosition = IF ~@.present \/ position < @.value
                                  THEN Some(position) ELSE @,
                 !.worstPosition = IF ~@.present \/ position > @.value
                                   THEN Some(position) ELSE @]
        ELSE counted

\* season.matches.forEach
RECURSIVE CountMatches(_, _, _)
CountMatches(stats, ms, playerId) ==
    IF ms = <<>> THEN stats
    ELSE LET isPlayer(r) == r.playerId = playerId
             found == SelectSeq(ms[1].players, isPlayer)
         IN  CountMatches(IF found = <<>> THEN stats ELSE CountResult(stats, found[1]),
                          Tail(ms), playerId)

\* seasons.value.forEach
RECURSIVE CountSeasons(_, _, _)
CountSeasons(stats, ss, playerId) ==
    IF ss = <<>> THEN stats
    ELSE LET season == ss[1]
             isPlayer(r) == r.playerId = playerId
             listed == SelectSeq(season.players, isPlayer)
         IN  IF listed = <<>> THEN CountSeasons(stats, Tail(ss), playerId)
             ELSE LET entered ==
                          [stats EXCEPT
                              !.seasonsParticipated = @ + 1,
                              !.totalPoints = @ + listed[1].points,
                              !.seasonWins =
                                  @ + (IF playerId \in SeasonWinnerIds(season) THEN 1 ELSE 0)]
                  IN  CountSeasons(CountMatches(entered, season.matches, playerId),
                                   Tail(ss), playerId)

\* the statistics returned; totalPoints is in 1/300 point, the averages are
\* in hundredths
getDetailedPlayerStats(ss, playerId) ==
    LET stats == CountSeasons(NoStats, ss, playerId)
    IN  [totalMatches |-> stats.totalMatches,
         totalVictories |-> stats.totalVictories,
         totalPoints |-> stats.totalPoints,
         seasonWins |-> stats.seasonWins,
         positionStats |-> stats.positionStats,
         seasonsParticipated |-> stats.seasonsParticipated,
         averagePosition |-> Average(stats.totalPositionSum, stats.matchCount),
         averagePoints |-> Average(stats.totalPoints, Hundredth * stats.matchCount),
         averageVictoriesPerMatch |-> Average(stats.totalVictories, stats.matchCount),
         bestPosition |-> stats.bestPosition,
         worstPosition |-> stats.worstPosition]

(***************************************************************************)
(* SpecDetails: the statistics over loaded seasons whose matches have up   *)
(* to seven players, so that positions above 6 occur.                      *)
(***************************************************************************)
\* seasons loaded, and matches of a season
MaxDetailSeasons == 2
MaxDetailMatches == 2

\* the players of the matches; A and B are the players looked at
MatchRoster == <<"A", "B", "C", "D", "E", "F", "G">>
DetailPlayers == {"A", "B"}

\* how many of the other players finish above A in a match
AboveCounts == {0, 5, 6}

\* a match as seen from A: not in it, or in it with 0 or 1 wins and so many
\* players above
DetailShapes ==
    {[inMatch |-> FALSE, above |-> 0, wins |-> 0]}
        \cup [inMatch : {TRUE}, above : AboveCounts, wins : {0, 1}]

\* the entries of the match of a shape: the first `above` of the others with
\* 2 wins, the rest of them with none
ShapeEntries(shape) ==
    LET others == [i \in 1 .. Len(MatchRoster) - 1 |->
                      [playerId |-> MatchRoster[i + 1],
                       winsInMatch |-> IF i <= shape.above THEN 2 ELSE 0]]
    IN  IF shape.inMatch
        THEN <<[playerId |-> "A", winsInMatch |-> shape.wins]>> \o others
        ELSE others

\* match.players of each shape: the stored result of the scorer
ShapePlayers == [shape \in DetailShapes |-> MatchScorer(ShapeEntries(shape))]

\* the rosters of a season: B alone, A alone, A with a win and B
DetailRosters ==
    {<<SeasonPlayer("B", 0, 0)>>,
     <<SeasonPlayer("A", 0, 0)>>,
     <<SeasonPlayer("A", 1, Pts(3, 1)), SeasonPlayer("B", 0, 0)>>,
     <<>>}

DetailSheets ==
    [roster : DetailRosters,
     shapes : UNION {[1 .. m -> DetailShapes] : m \in 0 .. MaxDetailMatches}]

DetailSeason(id, sheet) ==
    [id |-> id,
     players |-> sheet.roster,
     matches |-> [m \in 1 .. Len(sheet.shapes) |->
                     [id |-> MaxDetailMatches * id + m, players |-> ShapePlayers[sheet.shapes[m]]]]]

\* loadSeasons returned up to MaxDetailSeasons seasons
InitDetails ==
    /\ \E n \in 0 .. MaxDetailSeasons :
          \E sheets \in [1 .. n -> DetailSheets] :
              seasons = [i \in 1 .. n |-> DetailSeason(i, sheets[i])]
    /\ board = <<>>
    /\ winners = <<>>
    /\ ranking = <<>>
    /\ badges = <<>>
    /\ details = <<>>
    /\ entries = <<>>
    /\ resolved = <<>>
    /\ phase = "loaded"
    /\ InitTables
    /\ InitPage

\* the view is rendered: the leaderboard and the winners of the current
\* season, and the detailed statistics of the players looked at
RenderDetails ==
    /\ phase = "loaded"
    /\ board' = leaderboard(CurrentPlayers(seasons))
    /\ winners' = getCurrentSeasonWinners(CurrentPlayers(seasons))
    /\ details' = [p \in DetailPlayers |-> getDetailedPlayerStats(seasons, p)]
    /\ phase' = "ranked"
    /\ UNCHANGED <<entries, resolved, tables, seasons, ranking, badges, page>>

NextDetails == RenderDetails

SpecDetails == InitDetails /\ [][NextDetails]_vars

(***************************************************************************)
(* Properties of the detailed statistics, under SpecDetails.               *)
(***************************************************************************)
\* the places (season, match) of the matches holding the player
PlacesOf(ss, playerId) ==
    {sm \in UNION {{<<i, m>> : m \in 1 .. Len(ss[i].matches)} : i \in 1 .. Len(ss)} :
        \E r \in Range(ss[sm[1]].matches[sm[2]].players) : r.playerId = playerId}

\* the result of the player at a place
ResultAt(ss, sm, playerId) ==
    CHOOSE r \in Range(ss[sm[1]].matches[sm[2]].players) : r.playerId = playerId

\* the positions of the player over all seasons
PositionsOf(ss, playerId) ==
    {ResultAt(ss, sm, playerId).position : sm \in PlacesOf(ss, playerId)}

\* C24: bestPosition is the minimum and worstPosition the maximum of the
\* player's positions over all of the player's match participations in all
\* seasons, positions above 6 included, and both are null only when the
\* player has no participation.
C24_BestAndWorstPosition ==
    phase = "ranked" =>
        \A p \in DetailPlayers :
            LET positions == PositionsOf(seasons, p)
            IN  IF positions = {}
                THEN details[p].bestPosition = Null /\ details[p].worstPosition = Null
                ELSE /\ details[p].bestPosition.present
                     /\ details[p].worstPosition.present
                     /\ \A q \in positions : /\ details[p].bestPosition.value <= q
                                             /\ details[p].worstPosition.value >= q
                     /\ details[p].bestPosition.value \in positions
                     /\ details[p].worstPosition.value \in positions

\* the places counted as participations: those of the seasons with the player
\* on the roster
CountedPlaces(ss, playerId) ==
    {sm \in PlacesOf(ss, playerId) :
        \E r \in Range(ss[sm[1]].players) : r.playerId = playerId}

RECURSIVE SumOfPositions(_, _, _)
SumOfPositions(ss, places, playerId) ==
    IF places = {} THEN 0
    ELSE LET sm == CHOOSE x \in places : TRUE
         IN  ResultAt(ss, sm, playerId).position
             + SumOfPositions(ss, places \ {sm}, playerId)

\* C25: averagePosition is the mean of the player's positions over the
\* participation count: the participations counted are the results whose
\* positions are summed, positions above 6 included.
C25_AveragePosition ==
    phase = "ranked" =>
        \A p \in DetailPlayers :
            LET counted == CountedPlaces(seasons, p)
            IN  /\ details[p].totalMatches = Cardinality(counted)
                /\ counted # {} =>
                       details[p].averagePosition =
                           RoundedRatio(SumOfPositions(seasons, counted, p),
                                        Cardinality(counted))

\* C26: a player with no match participation has averagePosition,
\* averagePoints and averageVictoriesPerMatch 0, and an empty roster gives an
\* empty leaderboard and an empty winner set.
C26_DegenerateAggregation ==
    phase = "ranked" =>
        /\ \A p \in DetailPlayers :
              details[p].totalMatches = 0 =>
                  /\ details[p].averagePosition = 0
                  /\ details[p].averagePoints = 0
                  /\ details[p].averageVictoriesPerMatch = 0
        /\ CurrentPlayers(seasons) = <<>> => board = <<>> /\ winners = <<>>

\* C26 witness: the current season has an empty roster and the view is
\* rendered; A has season points but no match to divide them by
C26_Witness ==
    /\ phase = "ranked"
    /\ Len(seasons) = 2
    /\ seasons[1].players = <<>>
    /\ board = <<>>
    /\ winners = <<>>
    /\ details["A"].totalPoints > 0
    /\ details["A"].totalMatches = 0
    /\ details["A"].averagePoints = 0

(***************************************************************************)
(* SpecRoster: the match operations of the page on one season, with        *)
(* players leaving the roster.  The add-match form lists the players of    *)
(* the roster, so a saved match holds roster players only; the matches     *)
(* stored before a removal keep the rows of the player who left.           *)
(***************************************************************************)
\* a delete that is not narrowed to the player: the roster of the season goes
DeleteSeasonRows(sp, playerId) == [p \in {} |-> sp[p]]

\* ScoreboardServiceV2.removePlayerFromSeason: the season_players table after
\* the delete narrowed to the season and the player
DeleteRosterRow(sp, playerId) == [p \in DOMAIN sp \ {playerId} |-> sp[p]]

\* page removePlayerFromSeason(playerId): the service call, then the entry
\* of the player leaves the add-match form
removePlayerFromSeason(playerId) ==
    /\ ~isLoading
    /\ playerId \in DOMAIN season_players
    /\ season_players' = DeleteRosterRow(season_players, playerId)
    /\ entries' = WithoutPlayer(entries, playerId)
    /\ probe' = NoProbe
    /\ UNCHANGED <<resolved, phase, matches, match_seq, edits, views, page>>

NextRoster ==
    \/ \E cm \in SeasonEntryLists : SaveMatch(cm)
    \/ \E matchId \in 1 .. MaxMatches : DeleteMatch(matchId)
    \/ \E matchId \in 1 .. MaxMatches, em \in SeasonEntryLists : UpdateMatch(matchId, em)
    \/ \E playerId \in Roster : removePlayerFromSeason(playerId)

SpecRoster == Init /\ [][NextRoster]_vars

\* the players whose roster row a step deletes
Leaving == DOMAIN season_players \ DOMAIN season_players'

\* C27: a step that removes a player from the roster deletes that one
\* season_players row and nothing else: the stored matches with all their
\* results, those of the removed player included, and the wins and points of
\* every other roster row are the same after the step.
C27_RemovalFrame ==
    [][Leaving # {} =>
          /\ Cardinality(Leaving) = 1
          /\ matches' = matches
          /\ match_seq' = match_seq
          /\ \A q \in DOMAIN season_players \ Leaving :
                /\ q \in DOMAIN season_players'
                /\ season_players'[q] = season_players[q]]_vars

\* C27 witness: A left the roster of a season that holds a match with a row
\* of A, and B, who scored in that match, is still on the roster with points
C27_Witness ==
    /\ "A" \notin DOMAIN season_players
    /\ "B" \in DOMAIN season_players
    /\ season_players["B"].points > 0
    /\ \E id \in DOMAIN matches : {"A", "B"} \subseteq Participants(matches[id])

(***************************************************************************)
(* SpecFail: the match operations of the page with database calls that     *)
(* fail.  ScoreboardServiceV2 issues the calls of saveMatch and            *)
(* updateMatch one after the other, each committed on its own; a call that *)
(* returns an error makes the method throw (saveMatch) or return false     *)
(* (updateMatch) with the earlier calls already applied.                   *)
(***************************************************************************)
\* the calls of saveMatch on n players, in their order: the insert into
\* matches, the insert into match_players, then updatePlayerStats (a fetch and
\* an update) for the 1st .. n-th player
SaveCalls(n) ==
    {[call |-> "matches", at |-> 0], [call |-> "match_players", at |-> 0]}
        \cup {[call |-> "season_players", at |-> i] : i \in 1 .. n}

\* the calls of updateMatch on n players, in their order: the delete and the
\* insert on match_players, the fetch of the season id, then
\* recalculatePlayerStats (a fetch and an update) for the 1st .. n-th player
UpdateCalls(n) ==
    {[call |-> "delete", at |-> 0], [call |-> "match_players", at |-> 0],
     [call |-> "matches", at |-> 0]}
        \cup {[call |-> "season_players", at |-> i] : i \in 1 .. n}

\* season_players after updatePlayerStats ran for the first k players of
\* matchPlayers
StatsUpdated(sp, matchPlayers, k) ==
    LET resultOf(p) == CHOOSE mp \in Range(matchPlayers) : mp.playerId = p
    IN  [p \in DOMAIN sp |->
            IF \E j \in 1 .. k : matchPlayers[j].playerId = p
            THEN updatePlayerStats(sp[p], resultOf(p), matchPlayers)
            ELSE sp[p]]

\* season_players after recalculatePlayerStats ran over the stored matches ms
\* for the first k players of matchPlayers
StatsRecalculated(sp, ms, matchPlayers, k) ==
    [p \in DOMAIN sp |->
        IF \E j \in 1 .. k : matchPlayers[j].playerId = p
        THEN recalculatePlayerStats(ms, p)
        ELSE sp[p]]

\* the tables as they were when the operation started
Before == [phase |-> "failed", season_players |-> season_players, matches |-> matches]

\* page saveMatch with currentMatch = cm; the call `failing` of
\* ScoreboardServiceV2.saveMatch returns an error and the method rethrows it
SaveMatchFails(cm, failing) ==
    /\ match_seq <= MaxMatches
    /\ Len(cm) # 0
    /\ failing \in SaveCalls(Len(cm))
    /\ LET matchPlayersWithPoints == ScoredForm[cm]
           id == match_seq
       IN  \/ /\ failing.call = "matches"
              /\ UNCHANGED <<matches, match_seq, season_players>>
           \/ /\ failing.call = "match_players"
              /\ matches' = matches @@ (id :> {})
              /\ match_seq' = id + 1
              /\ UNCHANGED season_players
           \/ /\ failing.call = "season_players"
              /\ matches' = matches @@ (id :> MatchPlayerInserts(matchPlayersWithPoints))
              /\ match_seq' = id + 1
              /\ season_players' = StatsUpdated(season_players, matchPlayersWithPoints,
                                                failing.at - 1)
    /\ probe' = Before
    /\ UNCHANGED <<entries, resolved, phase, edits, views, page>>

\* page saveMatchEdit with editingMatch = {id: matchId, players: em}; the
\* call `failing` of ScoreboardServiceV2.updateMatch returns an error and the
\* method returns false
UpdateMatchFails(matchId, em, failing) ==
    /\ matchId \in DOMAIN matches
    /\ edits < MaxEdits
    /\ failing \in UpdateCalls(Len(em))
    /\ LET matchPlayersWithPoints == ScoredForm[em]
           replaced == [matches EXCEPT ![matchId] = MatchPlayerInserts(matchPlayersWithPoints)]
       IN  \/ /\ failing.call = "delete"
              /\ UNCHANGED <<matches, season_players>>
           \/ /\ failing.call = "match_players"
              /\ matches' = [matches EXCEPT ![matchId] = {}]
              /\ UNCHANGED season_players
           \/ /\ failing.call = "matches"
              /\ matches' = replaced
              /\ UNCHANGED season_players
           \/ /\ failing.call = "season_players"
              /\ matches' = replaced
              /\ season_players' = StatsRecalculated(season_players, replaced,
                                                     matchPlayersWithPoints, failing.at - 1)
    /\ probe' = Before
    /\ edits' = edits + 1
    /\ UNCHANGED <<entries, resolved, phase, match_seq, views, page>>

\* a run is followed up to its first failing operation
Unfailed == probe.phase # "failed"

NextFail ==
    \/ Unfailed /\ \E cm \in SeasonEntryLists : SaveMatch(cm)
    \/ Unfailed /\ \E matchId \in 1 .. MaxMatches : DeleteMatch(matchId)
    \/ Unfailed /\ \E matchId \in 1 .. MaxMatches, em \in SeasonEntryLists :
                      UpdateMatch(matchId, em)
    \/ Unfailed /\ \E cm \in SeasonEntryLists, failing \in SaveCalls(Len(RosterOrder)) :
                      SaveMatchFails(cm, failing)
    \/ Unfailed /\ \E matchId \in 1 .. MaxMatches, em \in SeasonEntryLists,
                      failing \in UpdateCalls(Len(RosterOrder)) :
                          UpdateMatchFails(matchId, em, failing)

SpecFail == Init /\ [][NextFail]_vars

\* C29: after a saveMatch or updateMatch in which a database call failed, the
\* stored matches with their results and the season_players totals are what
\* they were when the operation started.
C29_FailureLeavesNoPartialState ==
    probe.phase = "failed" =>
        /\ matches = probe.matches
        /\ season_players = probe.season_players

(***************************************************************************)
(* SpecLoad: the asynchronous handlers of the page in one browser.  A      *)
(* handler runs up to its first await when the user event arrives, and on  *)
(* from there when the awaited call returns; between the two any other     *)
(* user event can arrive.  A service method takes effect on the tables as  *)
(* one step, when it returns.  inflight holds the started handlers in the  *)
(* order of their start.                                                   *)
(***************************************************************************)
\* number of handlers in flight at a time
MaxInflight == 2
\* number of matches saved in one run
MaxLoadMatches == 2

\* the win-count typed into the add-match form
LoadWins == {1}
\* the players entered into the add-match form
LoadPlayers == {"A", "C"}
\* the global player the user deletes
DeletedPlayers == {"C"}

\* the handlers that write matches
MatchMutations == {"saveMatch", "saveMatchEdit", "deleteMatch"}

\* a handler awaiting its service call, with the arguments of the call
Handler(op, id, playerId, players) ==
    [op |-> op, pc |-> "call", id |-> id, playerId |-> playerId, players |-> players]

\* the handlers of op whose service call is in flight
Calls(op) ==
    LET calling(h) == h.op = op /\ h.pc = "call"
    IN  Len(SelectSeq(inflight, calling))

\* inflight without its i-th handler
Returned(i) == SubSeq(inflight, 1, i - 1) \o SubSeq(inflight, i + 1, Len(inflight))

\* match.match_players as getAllSeasons formats them
LoadedResults(rows) ==
    LET played(p) == p \in Participants(rows)
        listed == SelectSeq(RosterOrder, played)
    IN  [i \in 1 .. Len(listed) |->
            [playerId |-> listed[i],
             position |-> RowOf(rows, listed[i]).position,
             pointsEarned |-> RowOf(rows, listed[i]).points_earned]]

\* the matches of the season, the latest first
RECURSIVE LoadedMatches(_, _)
LoadedMatches(ms, top) ==
    IF top = 0 THEN <<>>
    ELSE (IF top \in DOMAIN ms
          THEN <<[id |-> top, players |-> LoadedResults(ms[top])]>>
          ELSE <<>>) \o LoadedMatches(ms, top - 1)

\* ScoreboardServiceV2.getAllSeasons
getAllSeasons(ids, sp, ms, top) ==
    IF ids = {} THEN <<>>
    ELSE LET onRoster(p) == p \in DOMAIN sp
             listed == SelectSeq(RosterOrder, onRoster)
         IN  <<[id |-> 1,
                players |-> [i \in 1 .. Len(listed) |->
                                SeasonPlayer(listed[i], sp[listed[i]].wins,
                                             sp[listed[i]].points)],
                matches |-> LoadedMatches(ms, top)]>>

\* the match is shown on the page
Shown(matchId) ==
    /\ seasons # <<>>
    /\ \E k \in 1 .. Len(seasons[1].matches) : seasons[1].matches[k].id = matchId

\* the player has an input in the add-match form
Listed(playerId) ==
    /\ seasons # <<>>
    /\ \E k \in 1 .. Len(seasons[1].players) : seasons[1].players[k].playerId = playerId

\* the page at onMounted: loadSeasons was called and awaits getAllSeasons
InitLoad ==
    /\ entries = <<>>
    /\ resolved = <<>>
    /\ phase = "input"
    /\ InitTables
    /\ InitViews
    /\ showAddMatchModal = FALSE
    /\ editingMatch = NoEdit
    /\ isLoading = TRUE
    /\ inflight = <<[Handler("loadSeasons", 0, "", <<>>) EXCEPT !.pc = "load"]>>
    /\ writers = <<>>
    /\ season_ids = {1}

\* saveMatch up to `await scoreboardService.saveMatch(...)`
saveMatchBegins ==
    /\ Len(entries) # 0
    /\ seasons # <<>>
    /\ ~isLoading
    /\ Len(inflight) < MaxInflight
    /\ match_seq - 1 + Calls("saveMatch") < MaxLoadMatches
    /\ isLoading' = TRUE
    /\ inflight' = Append(inflight, Handler("saveMatch", 0, "", MatchScorer(entries)))
    /\ UNCHANGED <<entries, resolved, phase, tables, views, showAddMatchModal, editingMatch,
                   writers, season_ids>>

\* saveMatchEdit up to `await scoreboardService.updateMatch(...)`
saveMatchEditBegins ==
    /\ editingMatch.present
    /\ ~isLoading
    /\ Len(inflight) < MaxInflight
    /\ edits + Calls("saveMatchEdit") < MaxEdits
    /\ isLoading' = TRUE
    /\ inflight' = Append(inflight, Handler("saveMatchEdit", editingMatch.id, "",
                                            MatchScorer(editingMatch.players)))
    /\ UNCHANGED <<entries, resolved, phase, tables, views, showAddMatchModal, editingMatch,
                   writers, season_ids>>

\* deleteMatch(matchId), confirmed, up to `await scoreboardService.deleteMatch(matchId)`
deleteMatchBegins(matchId) ==
    /\ Shown(matchId)
    /\ ~editingMatch.present
    /\ ~isLoading
    /\ Len(inflight) < MaxInflight
    /\ isLoading' = TRUE
    /\ inflight' = Append(inflight, Handler("deleteMatch", matchId, "", <<>>))
    /\ UNCHANGED <<entries, resolved, phase, tables, views, showAddMatchModal,
                   editingMatch, writers, season_ids>>

\* clearAllData, confirmed, up to `await scoreboardService.clearAllData()`
clearAllDataBegins ==
    /\ Len(inflight) < MaxInflight
    /\ isLoading' = TRUE
    /\ inflight' = Append(inflight, Handler("clearAllData", 0, "", <<>>))
    /\ UNCHANGED <<entries, resolved, phase, tables, views, showAddMatchModal,
                   editingMatch, writers, season_ids>>

\* deleteGlobalPlayerConfirm(playerId), confirmed, up to
\* `await scoreboardService.deleteGlobalPlayer(playerId)`; the player is one
\* of globalPlayers.value whose row is still stored
deleteGlobalPlayerConfirmBegins(playerId) ==
    /\ playerId \in DOMAIN season_players
    /\ Len(inflight) < MaxInflight
    /\ isLoading' = TRUE
    /\ inflight' = Append(inflight, Handler("deleteGlobalPlayerConfirm", 0, playerId, <<>>))
    /\ UNCHANGED <<entries, resolved, phase, tables, views, showAddMatchModal,
                   editingMatch, writers, season_ids>>

\* the handler's `finally` after a service call that threw or returned false
Finally(i) ==
    /\ isLoading' = FALSE
    /\ inflight' = Returned(i)

\* the handler goes on to `await loadSeasons()`, which sets isLoading
AwaitLoadSeasons(i) ==
    /\ isLoading' = TRUE
    /\ inflight' = [inflight EXCEPT ![i].pc = "load"]

\* ScoreboardServiceV2.saveMatch returns to saveMatch: the insert into matches
\* fails without the season, the insert into match_players fails without the
\* row of a player in table players
saveMatchReturns(i) ==
    /\ i \in 1 .. Len(inflight)
    /\ inflight[i].op = "saveMatch"
    /\ inflight[i].pc = "call"
    /\ LET matchPlayers == inflight[i].players
           id == match_seq
           who == {mp.playerId : mp \in Range(matchPlayers)}
       IN  IF season_ids = {}
           THEN /\ UNCHANGED <<season_players, matches, match_seq>>
                /\ Finally(i)
           ELSE IF ~(who \subseteq DOMAIN season_players)
           THEN /\ matches' = matches @@ (id :> {})
                /\ match_seq' = id + 1
                /\ UNCHANGED season_players
                /\ Finally(i)
           ELSE /\ matches' = matches @@ (id :> MatchPlayerInserts(matchPlayers))
                /\ match_seq' = id + 1
                /\ season_players' = StatsUpdated(season_players, matchPlayers,
                                                  Len(matchPlayers))
                /\ AwaitLoadSeasons(i)
    /\ probe' = NoProbe
    /\ UNCHANGED <<entries, resolved, phase, edits, views, showAddMatchModal,
                   editingMatch, writers, season_ids>>

\* ScoreboardServiceV2.updateMatch returns to saveMatchEdit: the insert into
\* match_players fails without the match or without the row of a player
updateMatchReturns(i) ==
    /\ i \in 1 .. Len(inflight)
    /\ inflight[i].op = "saveMatchEdit"
    /\ inflight[i].pc = "call"
    /\ LET players == inflight[i].players
           matchId == inflight[i].id
           who == {mp.playerId : mp \in Range(players)}
           replaced == [matches EXCEPT ![matchId] = MatchPlayerInserts(players)]
       IN  IF matchId \notin DOMAIN matches
           THEN /\ UNCHANGED <<season_players, matches>>
                /\ Finally(i)
           ELSE IF ~(who \subseteq DOMAIN season_players)
           THEN /\ matches' = [matches EXCEPT ![matchId] = {}]
                /\ UNCHANGED season_players
                /\ Finally(i)
           ELSE /\ matches' = replaced
                /\ season_players' = StatsRecalculated(season_players, replaced, players,
                                                       Len(players))
                /\ AwaitLoadSeasons(i)
    /\ probe' = NoProbe
    /\ edits' = edits + 1
    /\ UNCHANGED <<entries, resolved, phase, match_seq, views, showAddMatchModal,
                   editingMatch, writers, season_ids>>

\* ScoreboardServiceV2.deleteMatch returns to deleteMatch: the fetch of the
\* match fails when the match is gone
deleteMatchReturns(i) ==
    /\ i \in 1 .. Len(inflight)
    /\ inflight[i].op = "deleteMatch"
    /\ inflight[i].pc = "call"
    /\ LET matchId == inflight[i].id
           left == [id \in DOMAIN matches \ {matchId} |-> matches[id]]
       IN  IF matchId \notin DOMAIN matches
           THEN /\ UNCHANGED <<season_players, matches>>
                /\ Finally(i)
           ELSE /\ matches' = left
                /\ season_players' =
                      [p \in DOMAIN season_players |->
                          IF p \in Participants(matches[matchId])
                          THEN recalculatePlayerStats(left, p)
                          ELSE season_players[p]]
                /\ AwaitLoadSeasons(i)
    /\ probe' = NoProbe
    /\ UNCHANGED <<entries, resolved, phase, match_seq, edits, views, showAddMatchModal,
                   editingMatch, writers, season_ids>>

\* ScoreboardServiceV2.clearAllData returns true to clearAllData: every table
\* is empty, the page drops its seasons and the add-match entries
clearAllDataReturns(i) ==
    /\ i \in 1 .. Len(inflight)
    /\ inflight[i].op = "clearAllData"
    /\ inflight[i].pc = "call"
    /\ matches' = <<>>
    /\ season_players' = <<>>
    /\ season_ids' = {}
    /\ seasons' = <<>>
    /\ entries' = <<>>
    /\ probe' = NoProbe
    /\ Finally(i)
    /\ UNCHANGED <<resolved, phase, match_seq, edits, board, winners, ranking, badges,
                   details, showAddMatchModal, editingMatch, writers>>

\* the rows of the stored matches without those of the player
WithoutResultsOf(ms, playerId) ==
    [id \in DOMAIN ms |-> {r \in ms[id] : r.player_id # playerId}]

\* ScoreboardServiceV2.deleteGlobalPlayer returns true to
\* deleteGlobalPlayerConfirm: the row of table players is deleted and with it,
\* ON DELETE CASCADE, the player's rows of season_players and match_players;
\* the handler goes on to `await loadGlobalPlayers()`
deleteGlobalPlayerReturns(i) ==
    /\ i \in 1 .. Len(inflight)
    /\ inflight[i].op = "deleteGlobalPlayerConfirm"
    /\ inflight[i].pc = "call"
    /\ season_players' = DeleteRosterRow(season_players, inflight[i].playerId)
    /\ matches' = WithoutResultsOf(matches, inflight[i].playerId)
    /\ inflight' = [inflight EXCEPT ![i].pc = "players"]
    /\ probe' = NoProbe
    /\ UNCHANGED <<entries, resolved, phase, match_seq, edits, views, showAddMatchModal,
                   editingMatch, isLoading, writers, season_ids>>

\* loadGlobalPlayers returns to deleteGlobalPlayerConfirm, which goes on to
\* `await loadSeasons()`
loadGlobalPlayersReturns(i) ==
    /\ i \in 1 .. Len(inflight)
    /\ inflight[i].pc = "players"
    /\ AwaitLoadSeasons(i)
    /\ UNCHANGED <<entries, resolved, phase, tables, views, showAddMatchModal,
                   editingMatch, writers, season_ids>>

\* getAllSeasons returns to loadSeasons, whose `finally` clears isLoading, and
\* loadSeasons returns to the handler that awaited it: saveMatch empties the
\* form and closes the dialog, saveMatchEdit leaves the edit; the handler's
\* own `finally` clears isLoading again
loadSeasonsReturns(i) ==
    /\ i \in 1 .. Len(inflight)
    /\ inflight[i].pc = "load"
    /\ seasons' = getAllSeasons(season_ids, season_players, matches, match_seq - 1)
    /\ entries' = IF inflight[i].op = "saveMatch" THEN <<>> ELSE entries
    /\ showAddMatchModal' = IF inflight[i].op = "saveMatch" THEN FALSE ELSE showAddMatchModal
    /\ editingMatch' = IF inflight[i].op = "saveMatchEdit" THEN NoEdit ELSE editingMatch
    /\ Finally(i)
    /\ UNCHANGED <<resolved, phase, tables, board, winners, ranking, badges, details,
                   writers, season_ids>>

NextLoad ==
    \/ \E playerId \in LoadPlayers, winsInMatch \in LoadWins :
          Listed(playerId) /\ addToCurrentMatch(playerId, winsInMatch)
    \/ \E matchId \in 1 .. MaxLoadMatches : Shown(matchId) /\ startEditingMatch(matchId)
    \/ cancelEditingMatch
    \/ saveMatchBegins
    \/ saveMatchEditBegins
    \/ \E matchId \in 1 .. MaxLoadMatches : deleteMatchBegins(matchId)
    \/ clearAllDataBegins
    \/ \E playerId \in DeletedPlayers : deleteGlobalPlayerConfirmBegins(playerId)
    \/ \E i \in 1 .. MaxInflight : saveMatchReturns(i)
    \/ \E i \in 1 .. MaxInflight : updateMatchReturns(i)
    \/ \E i \in 1 .. MaxInflight : deleteMatchReturns(i)
    \/ \E i \in 1 .. MaxInflight : clearAllDataReturns(i)
    \/ \E i \in 1 .. MaxInflight : deleteGlobalPlayerReturns(i)
    \/ \E i \in 1 .. MaxInflight : loadGlobalPlayersReturns(i)
    \/ \E i \in 1 .. MaxInflight : loadSeasonsReturns(i)

SpecLoad == InitLoad /\ [][NextLoad]_vars

\* C28: no saveMatch, saveMatchEdit or deleteMatch of the page is started
\* while a service call of a handler started before it is still in flight:
\* of two handlers in flight, the later is none of the three when the earlier
\* still awaits its mutating service call.
C28_MatchMutationsSerialized ==
    \A i, j \in 1 .. Len(inflight) :
        (i < j /\ inflight[j].op \in MatchMutations) => inflight[i].pc # "call"

====
